---- MODULE Spec2Model ----
(***************************************************************************)
(* Health-telemetry pipeline: the ingestor lambda (validation, partition,  *)
(* manifest, marker) and the analyzer lambda (marker check, anomaly        *)
(* detection, summarizer call, persistence, marker, events).               *)
(*                                                                         *)
(* Text is a sequence of tokens over a uniquely decodable alphabet (the    *)
(* tokens "/" and "_" are single characters), so concatenation, prefix    *)
(* tests and replacement act as they do on Python strings.  A raw CSV cell *)
(* is a record [k, v, lit]: k says whether the cell is absent (None),      *)
(* empty (""), non-numeric text or a number; v is the number in tenths;    *)
(* lit says whether the number is written as an integer literal ("75") or  *)
(* with a decimal point ("75.0", "75.5").                                  *)
(***************************************************************************)
EXTENDS Integers, Sequences, FiniteSets, Bags, TLC

VARIABLES
    s3,         \* object store: <<bucket, key>> -> body, for the objects that exist
    ddb,        \* structured store: the set of items of table DDB_TABLE
    events,     \* event bus: the bag of entries accepted by put_events
    pc,         \* per invocation: the external call it is about to make
    kind,       \* per invocation: which lambda runs ("ingestor" or "analyzer")
    records,    \* per invocation: the records of its event
    correlation_id, \* per invocation: the event's correlation id, or None
    idx,        \* per invocation: position in records of the unit in progress
    results,    \* per invocation: the analyzer's results list
    loc,        \* per invocation: locals of the unit in progress
    ret,        \* per invocation: the value the handler returned
    raised,     \* <<invocation, position>> of the units in whose try block a step raised
    vrow,       \* validate_row: the row handed to the function
    vres,       \* validate_row: what it returned (pair valid, reason)
    vdone       \* validate_row: whether it has returned

valVars == <<vrow, vres, vdone>>
storeVars == <<s3, ddb, events>>
invVars == <<pc, kind, records, correlation_id, idx, results, loc, ret>>
pipeVars == <<s3, ddb, events, pc, kind, records, correlation_id, idx,
              results, loc, ret, raised>>
vars == <<s3, ddb, events, pc, kind, records, correlation_id, idx,
          results, loc, ret, raised, vrow, vres, vdone>>

----------------------------------------------------------------------------
(* Text as token sequences *)

StartsWith(s, p) == Len(s) >= Len(p) /\ SubSeq(s, 1, Len(p)) = p

\* s.replace(old, new) for non-empty old: leftmost, non-overlapping occurrences
RECURSIVE Replace(_, _, _)
Replace(s, old, new) ==
    IF Len(s) < Len(old) THEN s
    ELSE IF SubSeq(s, 1, Len(old)) = old
         THEN new \o Replace(SubSeq(s, Len(old) + 1, Len(s)), old, new)
         ELSE <<Head(s)>> \o Replace(Tail(s), old, new)

\* os.path.basename(s): what follows the last "/"
RECURSIVE basename(_)
basename(s) ==
    IF \E i \in 1..Len(s) : s[i] = "/"
    THEN basename(Tail(s))
    ELSE s

BUCKET_NAME == <<"hb">>
RAW_PREFIX == <<"raw", "/">>
PROCESSED_PREFIX == <<"processed", "/">>
REJECTED_PREFIX == <<"rejected", "/">>
ANALYSIS_PREFIX == <<"analyzed", "/">>
MARKERS_PREFIX == <<"markers", "/">>

marker_key(bucket, key, version_id) ==
    LET safe_key == Replace(key, <<"/">>, <<"_", "_">>)
    IN  MARKERS_PREFIX \o bucket \o <<"_", "_">> \o safe_key \o <<"_", "_">>
            \o version_id \o <<".done">>

\* f"{bucket}/{key}@{version_id}"
DefaultCorrId(bucket, key, version_id) == bucket \o <<"/">> \o key \o <<"@">> \o version_id

----------------------------------------------------------------------------
(* Raw cells *)

Absent == [k |-> "absent", v |-> 0, lit |-> "none"]
Empty == [k |-> "empty", v |-> 0, lit |-> "none"]
Text == [k |-> "text", v |-> 0, lit |-> "none"]
IntCell(n) == [k |-> "num", v |-> 10 * n, lit |-> "int"]
DecCell(t) == [k |-> "num", v |-> t, lit |-> "dec"]

NoneVal == [ok |-> FALSE, v |-> 0]
Some(n) == [ok |-> TRUE, v |-> n]

\* int(x) of a float x: truncation toward zero; t is in tenths
TruncTenths(t) == IF t >= 0 THEN t \div 10 ELSE -((-t) \div 10)

RANGES ==
    [heart_rate |-> <<50, 180>>,
     spo2 |-> <<90, 100>>,
     steps |-> <<0, 50000>>,
     temp_c |-> <<350, 400>>,       \* 35.0 .. 40.0 in tenths
     systolic_bp |-> <<90, 180>>,
     diastolic_bp |-> <<60, 120>>]

REQUIRED_FIELDS ==
    <<"event_time", "user_id", "heart_rate", "spo2", "steps",
      "temp_c", "systolic_bp", "diastolic_bp">>

\* float(value) guarded by except: the number in tenths, or None
parse_float(value) == IF value.k = "num" THEN Some(value.v) ELSE NoneVal

\* int(float(value)) guarded by except: the truncated number, or None
parse_int(value) == IF value.k = "num" THEN Some(TruncTenths(value.v)) ELSE NoneVal

\* A presence test that takes only None for missing
Falsy_none(value) == value.k = "absent"

\* row.get(f) is falsy for None and for ""
Falsy(value) == value.k \in {"absent", "empty"}

\* The range test without its None guard
InRange_unguarded(f, p) == RANGES[f][1] <= p.v /\ p.v <= RANGES[f][2]

InRange(f, p) == p.ok /\ RANGES[f][1] <= p.v /\ p.v <= RANGES[f][2]

MissingFields(row) == {i \in 1..Len(REQUIRED_FIELDS) : Falsy(row[REQUIRED_FIELDS[i]])}

FirstMissing(row) ==
    REQUIRED_FIELDS[CHOOSE i \in MissingFields(row) : \A j \in MissingFields(row) : i <= j]

\* The checks as successive stages: every parse before any range test
validate_row_staged(row) ==
    IF MissingFields(row) # {}
    THEN <<FALSE, "missing_" \o FirstMissing(row)>>
    ELSE LET hr == parse_int(row["heart_rate"])
             sp == parse_int(row["spo2"])
             st == parse_int(row["steps"])
             temp == parse_float(row["temp_c"])
             sbp == parse_int(row["systolic_bp"])
             dbp == parse_int(row["diastolic_bp"])
         IN  IF ~hr.ok THEN <<FALSE, "invalid_heart_rate">>
             ELSE IF ~sp.ok THEN <<FALSE, "invalid_spo2">>
             ELSE IF ~st.ok THEN <<FALSE, "invalid_steps">>
             ELSE IF ~temp.ok THEN <<FALSE, "invalid_temp_c">>
             ELSE IF ~sbp.ok THEN <<FALSE, "invalid_systolic_bp">>
             ELSE IF ~dbp.ok THEN <<FALSE, "invalid_diastolic_bp">>
             ELSE IF ~InRange("heart_rate", hr) THEN <<FALSE, "invalid_heart_rate">>
             ELSE IF ~InRange("spo2", sp) THEN <<FALSE, "invalid_spo2">>
             ELSE IF ~InRange("steps", st) THEN <<FALSE, "invalid_steps">>
             ELSE IF ~InRange("temp_c", temp) THEN <<FALSE, "invalid_temp_c">>
             ELSE IF ~InRange("systolic_bp", sbp) THEN <<FALSE, "invalid_systolic_bp">>
             ELSE IF ~InRange("diastolic_bp", dbp) THEN <<FALSE, "invalid_diastolic_bp">>
             ELSE IF dbp.v > sbp.v THEN <<FALSE, "dbp_gt_sbp">>
             ELSE <<TRUE, "ok">>

validate_row(row) ==
    IF MissingFields(row) # {}
    THEN <<FALSE, "missing_" \o FirstMissing(row)>>
    ELSE LET hr == parse_int(row["heart_rate"])
             sp == parse_int(row["spo2"])
             st == parse_int(row["steps"])
             temp == parse_float(row["temp_c"])
             sbp == parse_int(row["systolic_bp"])
             dbp == parse_int(row["diastolic_bp"])
         IN  IF ~InRange("heart_rate", hr) THEN <<FALSE, "invalid_heart_rate">>
             ELSE IF ~InRange("spo2", sp) THEN <<FALSE, "invalid_spo2">>
             ELSE IF ~InRange("steps", st) THEN <<FALSE, "invalid_steps">>
             ELSE IF ~InRange("temp_c", temp) THEN <<FALSE, "invalid_temp_c">>
             ELSE IF ~InRange("systolic_bp", sbp) THEN <<FALSE, "invalid_systolic_bp">>
             ELSE IF ~InRange("diastolic_bp", dbp) THEN <<FALSE, "invalid_diastolic_bp">>
             ELSE IF dbp.v > sbp.v THEN <<FALSE, "dbp_gt_sbp">>
             ELSE <<TRUE, "ok">>

----------------------------------------------------------------------------
(* Analyzer: pure functions *)

\* int(s) of a string: only an integer literal parses, anything else raises
IntOfStr(value) ==
    IF value.k = "num" /\ value.lit = "int" THEN Some(value.v \div 10) ELSE NoneVal

\* float(s) of a string: any number parses (kept in tenths), anything else raises
FloatOfStr(value) == IF value.k = "num" THEN Some(value.v) ELSE NoneVal

\* ", ".join(labels)
RECURSIVE Join(_)
Join(labels) ==
    IF Len(labels) = 0 THEN ""
    ELSE IF Len(labels) = 1 THEN labels[1]
    ELSE labels[1] \o ", " \o Join(Tail(labels))

AnomalyReasons(hr, spo2, temp, sys, dia) ==
    (IF hr < 60 \/ hr > 160 THEN <<"Abnormal heart rate">> ELSE <<>>)
    \o (IF spo2 < 92 THEN <<"Low SpO2">> ELSE <<>>)
    \o (IF temp > 380 THEN <<"High temperature">> ELSE <<>>)
    \o (IF sys > 140 \/ dia > 90 THEN <<"High blood pressure">> ELSE <<>>)

\* One pass of the loop body of detect_anomalies: [ok, out], ok = FALSE when a
\* conversion raises; out holds the finding of an anomalous row, if any.
DetectRow(row) ==
    LET hr == IntOfStr(row["heart_rate"])
        spo2 == IntOfStr(row["spo2"])
        temp == FloatOfStr(row["temp_c"])
        sys == IntOfStr(row["systolic_bp"])
        dia == IntOfStr(row["diastolic_bp"])
    IN  IF ~(hr.ok /\ spo2.ok /\ temp.ok /\ sys.ok /\ dia.ok)
        THEN [ok |-> FALSE, out |-> <<>>]
        ELSE LET anomaly_reasons == AnomalyReasons(hr.v, spo2.v, temp.v, sys.v, dia.v)
             IN  IF anomaly_reasons = <<>>
                 THEN [ok |-> TRUE, out |-> <<>>]
                 ELSE IF ~IntOfStr(row["steps"]).ok
                 THEN [ok |-> FALSE, out |-> <<>>]
                 ELSE [ok |-> TRUE,
                       out |-> <<[event_time |-> row["event_time"],
                                  user_id |-> row["user_id"],
                                  heart_rate |-> hr.v,
                                  spo2 |-> spo2.v,
                                  steps |-> IntOfStr(row["steps"]).v,
                                  temp_c |-> temp.v,
                                  systolic_bp |-> sys.v,
                                  diastolic_bp |-> dia.v,
                                  anomaly |-> Join(anomaly_reasons)]>>]

\* Findings collected in front of the list instead of appended to it
RECURSIVE detect_anomalies_prepend(_)
detect_anomalies_prepend(rows) ==
    IF rows = <<>> THEN [ok |-> TRUE, out |-> <<>>]
    ELSE LET first == DetectRow(Head(rows))
             rest == detect_anomalies_prepend(Tail(rows))
         IN  IF first.ok /\ rest.ok
             THEN [ok |-> TRUE, out |-> rest.out \o first.out]
             ELSE [ok |-> FALSE, out |-> <<>>]

RECURSIVE detect_anomalies(_)
detect_anomalies(rows) ==
    IF rows = <<>> THEN [ok |-> TRUE, out |-> <<>>]
    ELSE LET first == DetectRow(Head(rows))
             rest == detect_anomalies(Tail(rows))
         IN  IF first.ok /\ rest.ok
             THEN [ok |-> TRUE, out |-> first.out \o rest.out]
             ELSE [ok |-> FALSE, out |-> <<>>]

\* calculate_statistics converts every row's six numeric cells; its numbers go
\* into the prompt text only, so what matters to the handler is whether it raises.
calculate_statistics_ok(rows) ==
    \A i \in 1..Len(rows) :
        /\ IntOfStr(rows[i]["heart_rate"]).ok
        /\ IntOfStr(rows[i]["spo2"]).ok
        /\ FloatOfStr(rows[i]["temp_c"]).ok
        /\ IntOfStr(rows[i]["systolic_bp"]).ok
        /\ IntOfStr(rows[i]["diastolic_bp"]).ok
        /\ IntOfStr(rows[i]["steps"]).ok

\* d.get(k, default) of a JSON object held as a function on its keys
Get(d, k, default) == IF k \in DOMAIN d THEN d[k] ELSE default

\* The summarizer's output text: [fence, json, obj, text].  fence is "none",
\* "json" (the text starts with ```json) or "bare" (it starts with ``` alone);
\* json says whether what is inside is a JSON object, obj is that object and
\* text names the raw text.
GoodObject ==
    [insights |-> <<"Average heart rate elevated">>,
     recommendations |-> <<"Consult cardiologist">>,
     summary |-> "Two readings need attention"]

OutputTexts ==
    {[fence |-> "none", json |-> TRUE, obj |-> GoodObject, text |-> "json"],
     [fence |-> "json", json |-> TRUE, obj |-> GoodObject, text |-> "fenced json"],
     [fence |-> "bare", json |-> TRUE, obj |-> GoodObject, text |-> "bare fenced json"],
     [fence |-> "none", json |-> FALSE, obj |-> GoodObject, text |-> "free text"]}

\* Lines 184-185: only a text that starts with ```json loses its fences
StripFence(output_text) ==
    IF output_text.fence = "json"
    THEN [output_text EXCEPT !.fence = "none"]
    ELSE output_text

\* json.loads(output_text) succeeds on an unfenced JSON text only
JsonLoads(output_text) ==
    IF output_text.fence = "none" /\ output_text.json
    THEN [ok |-> TRUE, obj |-> output_text.obj]
    ELSE [ok |-> FALSE, obj |-> output_text.obj]

\* analyze_with_llm after invoke_model returned output_text: [ok, err, val]
analyze_with_llm(rows, output_text) ==
    IF ~calculate_statistics_ok(rows)
    THEN [ok |-> FALSE, err |-> "ValueError", val |-> GoodObject]
    ELSE LET result == JsonLoads(StripFence(output_text))
         IN  IF ~result.ok
             THEN [ok |-> FALSE, err |-> "JSONDecodeError", val |-> GoodObject]
             ELSE [ok |-> TRUE, err |-> "",
                   val |-> [insights |-> Get(result.obj, "insights", <<>>),
                            recommendations |-> Get(result.obj, "recommendations", <<>>),
                            summary |-> Get(result.obj, "summary", "Analysis completed.")]]

\* convert_floats: a float becomes Decimal(str(x)); only temp_c holds floats
convert_floats(anomalies) ==
    [i \in 1..Len(anomalies) |->
        [anomalies[i] EXCEPT !.temp_c = [decimal |-> anomalies[i].temp_c]]]

\* put_item stores the summary text as an attribute of type S
serialize_ddb_item(anomalies, llm_result, corr_id, key, rows, fresh) ==
    [correlation_id |-> corr_id,
     analysis_id |-> fresh,
     analysis_timestamp |-> fresh,
     source_file |-> key,
     processed_file |-> Replace(key, RAW_PREFIX, PROCESSED_PREFIX),
     records_analyzed |-> Len(rows),
     anomalies |-> convert_floats(anomalies),
     insights |-> Get(llm_result, "insights", <<>>),
     recommendations |-> Get(llm_result, "recommendations", <<>>),
     summary |-> [S |-> <<Get(llm_result, "summary", "Analysis completed.")>>],
     notification_sent |-> FALSE,
     notification_timestamp |-> "None"]

----------------------------------------------------------------------------
(* Invocations and the stores *)

MaxInvocations == 2     \* invocations the environment starts in one behaviour
MaxBatch == 3           \* records in one event
MaxRows == 3            \* rows in one generated file

Invs == 1..MaxInvocations

NoCorr == <<>>          \* correlation_id = None
NoRet == [status |-> "none"]
NoLoc == [rows |-> <<>>, fieldnames |-> <<>>, anomalies |-> <<>>,
          llm_result |-> [insights |-> <<>>, recommendations |-> <<>>, summary |-> ""],
          valid_rows |-> <<>>, reject_rows |-> <<>>, err |-> ""]

\* s3.put_object(Bucket=bucket, Key=key, Body=body) that succeeded
PutObject(store, bucket, key, body) ==
    [k \in DOMAIN store \cup {<<bucket, key>>} |->
        IF k = <<bucket, key>> THEN body ELSE store[k]]

\* head_object answers from the store's content
\* A gate that never finds the marker
object_exists_never(bucket, key) == FALSE

\* A gate that also counts the markers of units still being processed
object_exists_locked(bucket, key) ==
    \/ <<bucket, key>> \in DOMAIN s3
    \/ \E i \in Invs :
          /\ kind[i] = "analyzer"
          /\ pc[i] \in {"read", "llm", "save", "upload", "mark"}
          /\ key = marker_key(records[i][idx[i]].bucket, records[i][idx[i]].key,
                              <<"null">>)

\* head_object, when it answers: found, or the 404 that is a ClientError.
\* (Any other ClientError would be taken for "not found" as well.)  A request
\* that gets no answer raises an error that is no ClientError: the callers
\* model it, see Abort.
object_exists(bucket, key) == <<bucket, key>> \in DOMAIN s3

\* table.put_item(Item=item): the table's key is (correlation_id, analysis_id)
\* A table keyed by correlation_id alone
PutItem_byCorr(table, item) ==
    {it \in table : it.correlation_id # item.correlation_id} \cup {item}

PutItem(table, item) ==
    {it \in table : ~(it.correlation_id = item.correlation_id
                      /\ it.analysis_id = item.analysis_id)} \cup {item}

\* analysis_{time}_{uuid}: a value no earlier item holds
FreshId == Cardinality(ddb) + 1

\* The record of the event the invocation is working on, and what lines
\* 292-300 (analyzer) and 116-124 (ingestor) derive from it
CurRec(i) == records[i][idx[i]]
CurBucket(i) == CurRec(i)["bucket"]
CurKey(i) == CurRec(i)["key"]
CurVersion(i) == Get(CurRec(i), "versionId", <<"null">>)
CurMarker(i) == marker_key(CurBucket(i), CurKey(i), CurVersion(i))
CurCorrId(i) ==
    IF correlation_id[i] # NoCorr
    THEN correlation_id[i]
    ELSE DefaultCorrId(CurBucket(i), CurKey(i), CurVersion(i))

\* The for loop moves on to the next record, or the handler returns
Advance(i, res) ==
    /\ results' = [results EXCEPT ![i] = res]
    /\ loc' = [loc EXCEPT ![i] = NoLoc]
    /\ IF idx[i] < Len(records[i])
       THEN /\ idx' = [idx EXCEPT ![i] = @ + 1]
            /\ pc' = [pc EXCEPT ![i] = "check"]
            /\ ret' = ret
       ELSE /\ idx' = idx
            /\ pc' = [pc EXCEPT ![i] = "returned"]
            /\ ret' = [ret EXCEPT ![i] =
                        IF kind[i] = "analyzer"
                        THEN [status |-> "ok", results |-> res]
                        ELSE [status |-> "ok"]]

----------------------------------------------------------------------------
(* Analyzer lambda_handler *)

\* Lines 274-287: the records and the correlation id of an event
AnalyzerEntry(event) ==
    IF "source" \in DOMAIN event /\ event["source"] = "eventbridge"
    THEN IF "bucket" \notin DOMAIN event \/ "key" \notin DOMAIN event
         THEN [ok |-> FALSE, err |-> "KeyError", records |-> <<>>,
               correlation_id |-> NoCorr]
         ELSE
         [ok |-> TRUE,
          records |-> <<[bucket |-> event["bucket"], key |-> event["key"],
                         versionId |-> Get(event, "versionId", <<"null">>)]>>,
          correlation_id |-> Get(event, "correlation_id", <<"unknown">>)]
    ELSE IF "Records" \in DOMAIN event
    THEN [ok |-> TRUE, records |-> event["Records"], correlation_id |-> NoCorr]
    ELSE IF "bucket" \in DOMAIN event /\ "key" \in DOMAIN event
    THEN [ok |-> TRUE,
          records |-> <<[bucket |-> event["bucket"], key |-> event["key"],
                         versionId |-> Get(event, "versionId", <<"null">>)]>>,
          correlation_id |-> Get(event, "correlation_id", <<"unknown">>)]
    ELSE [ok |-> FALSE, records |-> <<>>, correlation_id |-> NoCorr]

\* The handler starts on an event
Start(i, lambda, entry) ==
    /\ pc[i] = "idle"
    /\ \A j \in Invs : j < i => pc[j] # "idle"
    /\ kind' = [kind EXCEPT ![i] = lambda]
    /\ records' = [records EXCEPT ![i] = entry.records]
    /\ correlation_id' = [correlation_id EXCEPT ![i] = entry.correlation_id]
    /\ IF "err" \in DOMAIN entry
       THEN /\ pc' = [pc EXCEPT ![i] = "crashed"]
            /\ ret' = [ret EXCEPT ![i] = [status |-> "raised", error |-> entry.err]]
       ELSE IF ~entry.ok
       THEN /\ pc' = [pc EXCEPT ![i] = "returned"]
            /\ ret' = [ret EXCEPT ![i] =
                        [status |-> "failed", reason |-> "invalid_event_format"]]
       ELSE IF entry.records = <<>>
       THEN /\ pc' = [pc EXCEPT ![i] = "returned"]
            /\ ret' = [ret EXCEPT ![i] =
                        IF lambda = "analyzer"
                        THEN [status |-> "ok", results |-> <<>>]
                        ELSE [status |-> "ok"]]
       ELSE /\ pc' = [pc EXCEPT ![i] = "check"]
            /\ ret' = ret
    /\ UNCHANGED <<s3, ddb, events, idx, results, loc, raised>>

\* An exception outside the try block: the invocation ends with the error
\* and the handler returns nothing; the runtime reports the error
Abort(i, err) ==
    /\ pc' = [pc EXCEPT ![i] = "crashed"]
    /\ ret' = [ret EXCEPT ![i] = [status |-> "raised", error |-> err]]
    /\ results' = [results EXCEPT ![i] = <<>>]
    /\ loc' = [loc EXCEPT ![i] = NoLoc]
    /\ UNCHANGED <<kind, records, correlation_id, idx, raised>>

\* rec["s3"]["bucket"]["name"] and rec["s3"]["object"]["key"] are there
WellFormed(rec) == "bucket" \in DOMAIN rec /\ "key" \in DOMAIN rec

\* An exception inside the try block of the unit in progress (line 383)
Raise(i, err) ==
    /\ pc' = [pc EXCEPT ![i] = "fail_event"]
    /\ loc' = [loc EXCEPT ![i].err = err]
    /\ raised' = raised \cup {<<i, idx[i]>>}
    /\ UNCHANGED <<kind, records, correlation_id, idx, results, ret>>

\* A gate that writes the marker as soon as it found it absent
AnalyzerCheck_eager(i) ==
    /\ kind[i] = "analyzer" /\ pc[i] = "check"
    /\ IF object_exists(BUCKET_NAME, CurMarker(i))
       THEN /\ Advance(i, Append(results[i],
                  [correlation_id |-> CurCorrId(i), status |-> "skipped",
                   reason |-> "already_analyzed"]))
            /\ s3' = s3
       ELSE IF ~StartsWith(CurKey(i), PROCESSED_PREFIX)
       THEN /\ Advance(i, Append(results[i],
                  [correlation_id |-> CurCorrId(i), status |-> "skipped",
                   reason |-> "non_processed_prefix"]))
            /\ s3' = s3
       ELSE /\ pc' = [pc EXCEPT ![i] = "read"]
            /\ s3' = PutObject(s3, BUCKET_NAME, CurMarker(i), [type |-> "marker"])
            /\ UNCHANGED <<idx, results, loc, ret>>
    /\ UNCHANGED <<ddb, events, kind, records, correlation_id, raised>>

\* Lines 291-310, all before the try block: the record's fields, the
\* idempotency check and the prefix filter
AnalyzerCheck(i) ==
    /\ kind[i] = "analyzer" /\ pc[i] = "check"
    /\ IF ~WellFormed(CurRec(i))
       THEN Abort(i, "KeyError")
       ELSE \/ Abort(i, "head_object failed")
            \/ /\ IF object_exists(BUCKET_NAME, CurMarker(i))
                  THEN Advance(i, Append(results[i],
                           [correlation_id |-> CurCorrId(i), status |-> "skipped",
                            reason |-> "already_analyzed"]))
                  ELSE IF ~StartsWith(CurKey(i), PROCESSED_PREFIX)
                  THEN Advance(i, Append(results[i],
                           [correlation_id |-> CurCorrId(i), status |-> "skipped",
                            reason |-> "non_processed_prefix"]))
                  ELSE /\ pc' = [pc EXCEPT ![i] = "read"]
                       /\ UNCHANGED <<idx, results, loc, ret>>
               /\ UNCHANGED <<kind, records, correlation_id, raised>>
    /\ UNCHANGED <<s3, ddb, events>>

\* Lines 313-320: csv_to_dicts and detect_anomalies
AnalyzerRead(i) ==
    /\ kind[i] = "analyzer" /\ pc[i] = "read"
    /\ \/ /\ Raise(i, "get_object failed")
          /\ UNCHANGED <<s3, ddb, events>>
       \/ /\ <<CurBucket(i), CurKey(i)>> \in DOMAIN s3
          /\ LET rows == s3[<<CurBucket(i), CurKey(i)>>].rows
                 anomalies == detect_anomalies(rows)
             IN  IF rows = <<>>
                 THEN /\ Advance(i, Append(results[i],
                            [correlation_id |-> CurCorrId(i), status |-> "skipped",
                             reason |-> "no_data"]))
                      /\ UNCHANGED raised
                 ELSE IF ~anomalies.ok
                 THEN Raise(i, "ValueError")
                 ELSE /\ pc' = [pc EXCEPT ![i] = "llm"]
                      /\ loc' = [loc EXCEPT ![i].rows = rows,
                                            ![i].anomalies = anomalies.out]
                      /\ UNCHANGED <<idx, results, ret, raised>>
          /\ UNCHANGED <<s3, ddb, events, kind, records, correlation_id>>

\* Lines 322-323: analyze_with_llm (statistics, invoke_model, parsing)
AnalyzerLlm(i) ==
    /\ kind[i] = "analyzer" /\ pc[i] = "llm"
    /\ UNCHANGED <<s3, ddb, events>>
    /\ IF ~calculate_statistics_ok(loc[i].rows)
       THEN Raise(i, "ValueError")
       ELSE \/ Raise(i, "invoke_model failed")
            \/ \E output_text \in OutputTexts :
                 LET r == analyze_with_llm(loc[i].rows, output_text)
                 IN  IF ~r.ok
                     THEN Raise(i, r.err)
                     ELSE /\ pc' = [pc EXCEPT ![i] = "save"]
                          /\ loc' = [loc EXCEPT ![i].llm_result = r.val]
                          /\ UNCHANGED <<kind, records, correlation_id, idx,
                                         results, ret, raised>>

\* save_to_dynamodb without its re-raise: a failed write is only logged
AnalyzerSave_swallow(i) ==
    /\ kind[i] = "analyzer" /\ pc[i] = "save"
    /\ UNCHANGED <<s3, events>>
    /\ \/ ddb' = ddb
       \/ ddb' = PutItem(ddb, serialize_ddb_item(loc[i].anomalies, loc[i].llm_result,
                                 CurCorrId(i), CurKey(i), loc[i].rows, FreshId))
    /\ pc' = [pc EXCEPT ![i] = "upload"]
    /\ UNCHANGED <<kind, records, correlation_id, idx, results, loc, ret, raised>>

\* Lines 330-332: serialize_ddb_item and save_to_dynamodb
AnalyzerSave(i) ==
    /\ kind[i] = "analyzer" /\ pc[i] = "save"
    /\ UNCHANGED <<s3, events>>
    /\ \/ /\ Raise(i, "put_item failed")
          /\ UNCHANGED ddb
       \/ /\ ddb' = PutItem(ddb, serialize_ddb_item(loc[i].anomalies, loc[i].llm_result,
                                    CurCorrId(i), CurKey(i), loc[i].rows, FreshId))
          /\ pc' = [pc EXCEPT ![i] = "upload"]
          /\ UNCHANGED <<kind, records, correlation_id, idx, results, loc, ret, raised>>

\* Line 344
AnalysisKey(key) ==
    ANALYSIS_PREFIX \o Replace(basename(key), <<".csv">>, <<>>)
        \o <<"_", "analysis", ".json">>

\* Lines 335-343
AnalysisOutput(i) ==
    [type |-> "analysis",
     correlation_id |-> CurCorrId(i),
     records_analyzed |-> Len(loc[i].rows),
     anomalies |-> loc[i].anomalies,
     insights |-> loc[i].llm_result["insights"],
     recommendations |-> loc[i].llm_result["recommendations"],
     summary |-> loc[i].llm_result["summary"]]

\* Lines 334-350: the full analysis goes to the object store
AnalyzerUpload(i) ==
    /\ kind[i] = "analyzer" /\ pc[i] = "upload"
    /\ UNCHANGED <<ddb, events>>
    /\ \/ /\ Raise(i, "put_object failed")
          /\ UNCHANGED s3
       \/ /\ s3' = PutObject(s3, BUCKET_NAME, AnalysisKey(CurKey(i)), AnalysisOutput(i))
          /\ pc' = [pc EXCEPT ![i] = "mark"]
          /\ UNCHANGED <<kind, records, correlation_id, idx, results, loc, ret, raised>>

\* Lines 352-353: the idempotency marker
AnalyzerMark(i) ==
    /\ kind[i] = "analyzer" /\ pc[i] = "mark"
    /\ UNCHANGED <<ddb, events>>
    /\ \/ /\ Raise(i, "put_object failed")
          /\ UNCHANGED s3
       \/ /\ s3' = PutObject(s3, BUCKET_NAME, CurMarker(i), [type |-> "marker"])
          /\ pc' = [pc EXCEPT ![i] = "event"]
          /\ UNCHANGED <<kind, records, correlation_id, idx, results, loc, ret, raised>>

\* send_event_to_eventbridge: put_events, whose failure is logged and dropped
send_event_to_eventbridge(event_type, detail, accepted) ==
    IF accepted
    THEN events (+) SetToBag({[source |-> "health.data.analyzer",
                               detail_type |-> event_type, detail |-> detail]})
    ELSE events

\* Lines 362-381: the completion event and the unit's result entry
AnalyzerEvent(i) ==
    /\ kind[i] = "analyzer" /\ pc[i] = "event"
    /\ \E accepted \in BOOLEAN :
        events' = send_event_to_eventbridge("Data Analysis Complete",
                    [correlation_id |-> CurCorrId(i),
                     bucket |-> BUCKET_NAME,
                     source_key |-> CurKey(i),
                     analysis_key |-> AnalysisKey(CurKey(i)),
                     row_count |-> Len(loc[i].rows),
                     anomaly_count |-> Len(loc[i].anomalies),
                     status |-> "success",
                     summary |-> Get(loc[i].llm_result, "summary", "Analysis completed")],
                    accepted)
    /\ Advance(i, Append(results[i],
            [correlation_id |-> CurCorrId(i), status |-> "success",
             analysis_key |-> AnalysisKey(CurKey(i)),
             rows_analyzed |-> Len(loc[i].rows),
             anomalies_detected |-> Len(loc[i].anomalies)]))
    /\ UNCHANGED <<s3, ddb, kind, records, correlation_id, raised>>

\* An except clause that also removes the marker of the unit
AnalyzerFailed_unmark(i) ==
    /\ kind[i] = "analyzer" /\ pc[i] = "fail_event"
    /\ \E accepted \in BOOLEAN :
        events' = send_event_to_eventbridge("Data Analysis Failed",
                    [correlation_id |-> CurCorrId(i),
                     bucket |-> CurBucket(i),
                     source_key |-> CurKey(i),
                     status |-> "failed",
                     error |-> loc[i].err],
                    accepted)
    /\ Advance(i, Append(results[i],
            [correlation_id |-> CurCorrId(i), status |-> "failed",
             error |-> loc[i].err]))
    /\ s3' = [k \in DOMAIN s3 \ {<<BUCKET_NAME, CurMarker(i)>>} |-> s3[k]]
    /\ UNCHANGED <<ddb, kind, records, correlation_id, raised>>

\* Lines 383-392: the except clause
AnalyzerFailed(i) ==
    /\ kind[i] = "analyzer" /\ pc[i] = "fail_event"
    /\ \E accepted \in BOOLEAN :
        events' = send_event_to_eventbridge("Data Analysis Failed",
                    [correlation_id |-> CurCorrId(i),
                     bucket |-> CurBucket(i),
                     source_key |-> CurKey(i),
                     status |-> "failed",
                     error |-> loc[i].err],
                    accepted)
    /\ Advance(i, Append(results[i],
            [correlation_id |-> CurCorrId(i), status |-> "failed",
             error |-> loc[i].err]))
    /\ UNCHANGED <<s3, ddb, kind, records, correlation_id, raised>>

\* The invocation ends where it stands (timeout, out of memory, host loss)
Crash(i) ==
    /\ pc[i] \notin {"idle", "returned", "crashed"}
    /\ pc' = [pc EXCEPT ![i] = "crashed"]
    /\ results' = [results EXCEPT ![i] = <<>>]
    /\ loc' = [loc EXCEPT ![i] = NoLoc]
    /\ UNCHANGED <<s3, ddb, events, kind, records, correlation_id, idx, ret, raised>>

----------------------------------------------------------------------------
(* Ingestor lambda_handler *)

\* Lines 105-113: the records of an event
IngestorEntry(event) ==
    IF "Records" \in DOMAIN event
    THEN [ok |-> TRUE, records |-> event["Records"], correlation_id |-> NoCorr]
    ELSE IF "bucket" \in DOMAIN event /\ "key" \in DOMAIN event
    THEN [ok |-> TRUE,
          records |-> <<[bucket |-> event["bucket"], key |-> event["key"],
                         versionId |-> Get(event, "versionId", <<"null">>)]>>,
          correlation_id |-> NoCorr]
    ELSE [ok |-> FALSE, records |-> <<>>, correlation_id |-> NoCorr]

Range(seq) == {seq[n] : n \in 1..Len(seq)}

\* csv_to_string then DictReader: the cells of the named columns, a None
\* written as the empty string; extra keys are ignored
csv_to_string(rows, fieldnames) ==
    [type |-> "csv",
     fieldnames |-> fieldnames,
     rows |-> [n \in 1..Len(rows) |->
                [f \in Range(fieldnames) |->
                    IF f = "reject_reason" THEN rows[n][f]
                    ELSE IF rows[n][f] = Absent THEN Empty
                    ELSE rows[n][f]]]]

\* Lines 140-148: the rows validate_row accepts, in input order
RECURSIVE ValidRows(_)
ValidRows(rows) ==
    IF rows = <<>> THEN <<>>
    ELSE IF validate_row(Head(rows))[1]
         THEN <<Head(rows)>> \o ValidRows(Tail(rows))
         ELSE ValidRows(Tail(rows))

\* Rejected rows that keep the reason and lose the row
RECURSIVE RejectRows_reasonOnly(_)
RejectRows_reasonOnly(rows) ==
    IF rows = <<>> THEN <<>>
    ELSE IF validate_row(Head(rows))[1]
         THEN RejectRows_reasonOnly(Tail(rows))
         ELSE <<[f \in {"reject_reason"} |-> validate_row(Head(rows))[2]]>>
              \o RejectRows_reasonOnly(Tail(rows))

\* Lines 140-148: the rows it rejects, each with its reject_reason
RECURSIVE RejectRows(_)
RejectRows(rows) ==
    IF rows = <<>> THEN <<>>
    ELSE IF validate_row(Head(rows))[1]
         THEN RejectRows(Tail(rows))
         ELSE <<[f \in DOMAIN Head(rows) \cup {"reject_reason"} |->
                    IF f = "reject_reason" THEN validate_row(Head(rows))[2]
                    ELSE Head(rows)[f]]>>
              \o RejectRows(Tail(rows))

\* Lines 150-153
ProcessedKey(key) == PROCESSED_PREFIX \o basename(key)
RejectedKey(key) ==
    REJECTED_PREFIX \o Replace(basename(key), <<".csv">>, <<>>)
        \o <<"_", "rejected", ".csv">>
ManifestKey(key) ==
    PROCESSED_PREFIX \o Replace(basename(key), <<".csv">>, <<>>)
        \o <<"_", "manifest", ".json">>

\* Lines 163-177
Manifest(bucket, key, version_id, valid_rows, reject_rows) ==
    [type |-> "manifest",
     correlation_id |-> DefaultCorrId(bucket, key, version_id),
     source_bucket |-> bucket,
     source_key |-> key,
     source_version |-> version_id,
     processed_key |-> IF valid_rows # <<>> THEN ProcessedKey(key) ELSE <<>>,
     rejected_key |-> IF reject_rows # <<>> THEN RejectedKey(key) ELSE <<>>,
     counts |-> [input |-> Len(valid_rows) + Len(reject_rows),
                 valid |-> Len(valid_rows),
                 rejected |-> Len(reject_rows)],
     schema_fields |-> REQUIRED_FIELDS]

\* Lines 188-190: the except clause logs and moves on to the next record
IngestorRaise(i) ==
    /\ Advance(i, results[i])
    /\ raised' = raised \cup {<<i, idx[i]>>}
    /\ UNCHANGED <<kind, records, correlation_id>>

IngestorGoto(i, label) ==
    /\ pc' = [pc EXCEPT ![i] = label]
    /\ UNCHANGED <<kind, records, correlation_id, idx, results, loc, ret, raised>>

\* Lines 115-131, all before the try block: the record's fields, the
\* idempotency check and the prefix filter
IngestorCheck(i) ==
    /\ kind[i] = "ingestor" /\ pc[i] = "check"
    /\ IF ~WellFormed(CurRec(i))
       THEN Abort(i, "KeyError")
       ELSE \/ Abort(i, "head_object failed")
            \/ /\ IF object_exists(BUCKET_NAME, CurMarker(i))
                  THEN Advance(i, results[i])
                  ELSE IF ~StartsWith(CurKey(i), RAW_PREFIX)
                  THEN Advance(i, results[i])
                  ELSE /\ pc' = [pc EXCEPT ![i] = "i_read"]
                       /\ UNCHANGED <<idx, results, loc, ret>>
               /\ UNCHANGED <<kind, records, correlation_id, raised>>
    /\ UNCHANGED <<s3, ddb, events>>

\* Lines 134-153: read the CSV and partition its rows
IngestorRead(i) ==
    /\ kind[i] = "ingestor" /\ pc[i] = "i_read"
    /\ UNCHANGED <<s3, ddb, events>>
    /\ \/ IngestorRaise(i)
       \/ /\ <<CurBucket(i), CurKey(i)>> \in DOMAIN s3
          /\ LET obj == s3[<<CurBucket(i), CurKey(i)>>]
                 valid_rows == ValidRows(obj.rows)
                 reject_rows == RejectRows(obj.rows)
             IN  /\ loc' = [loc EXCEPT ![i].fieldnames = obj.fieldnames,
                                       ![i].valid_rows = valid_rows,
                                       ![i].reject_rows = reject_rows]
                 /\ pc' = [pc EXCEPT ![i] =
                            IF valid_rows # <<>> THEN "i_processed"
                            ELSE IF reject_rows # <<>> THEN "i_rejected"
                            ELSE "i_manifest"]
          /\ UNCHANGED <<kind, records, correlation_id, idx, results, ret, raised>>

\* Lines 155-157
IngestorPutProcessed(i) ==
    /\ kind[i] = "ingestor" /\ pc[i] = "i_processed"
    /\ UNCHANGED <<ddb, events>>
    /\ \/ /\ IngestorRaise(i)
          /\ UNCHANGED s3
       \/ /\ s3' = PutObject(s3, BUCKET_NAME, ProcessedKey(CurKey(i)),
                        csv_to_string(loc[i].valid_rows, loc[i].fieldnames))
          /\ IngestorGoto(i, IF loc[i].reject_rows # <<>> THEN "i_rejected"
                             ELSE "i_manifest")

\* Lines 158-161
IngestorPutRejected(i) ==
    /\ kind[i] = "ingestor" /\ pc[i] = "i_rejected"
    /\ UNCHANGED <<ddb, events>>
    /\ \/ /\ IngestorRaise(i)
          /\ UNCHANGED s3
       \/ /\ s3' = PutObject(s3, BUCKET_NAME, RejectedKey(CurKey(i)),
                        csv_to_string(loc[i].reject_rows,
                                      loc[i].fieldnames \o <<"reject_reason">>))
          /\ IngestorGoto(i, "i_manifest")

\* Lines 163-180
IngestorPutManifest(i) ==
    /\ kind[i] = "ingestor" /\ pc[i] = "i_manifest"
    /\ UNCHANGED <<ddb, events>>
    /\ \/ /\ IngestorRaise(i)
          /\ UNCHANGED s3
       \/ /\ s3' = PutObject(s3, BUCKET_NAME, ManifestKey(CurKey(i)),
                        Manifest(CurBucket(i), CurKey(i), CurVersion(i),
                                 loc[i].valid_rows, loc[i].reject_rows))
          /\ IngestorGoto(i, "i_marker")

\* Lines 182-186
IngestorPutMarker(i) ==
    /\ kind[i] = "ingestor" /\ pc[i] = "i_marker"
    /\ UNCHANGED <<ddb, events>>
    /\ \/ /\ IngestorRaise(i)
          /\ UNCHANGED s3
       \/ /\ s3' = PutObject(s3, BUCKET_NAME, CurMarker(i), [type |-> "marker"])
          /\ Advance(i, results[i])
          /\ UNCHANGED <<kind, records, correlation_id, raised>>

----------------------------------------------------------------------------
(* The pipeline: raw files arrive, events are delivered at least once *)

RowOK ==
    [event_time |-> Text, user_id |-> Text, heart_rate |-> IntCell(75),
     spo2 |-> IntCell(98), steps |-> IntCell(1000), temp_c |-> DecCell(365),
     systolic_bp |-> IntCell(120), diastolic_bp |-> IntCell(80)]
RowHigh == [RowOK EXCEPT !.heart_rate = IntCell(165), !.spo2 = IntCell(91)]
RowBad == [RowOK EXCEPT !.heart_rate = IntCell(200)]
RowDec == [RowOK EXCEPT !.heart_rate = DecCell(755)]

RawA == RAW_PREFIX \o <<"a", ".csv">>
RawB == RAW_PREFIX \o <<"b", ".csv">>
RawC == RAW_PREFIX \o <<"c", ".csv">>
ProcA == PROCESSED_PREFIX \o <<"a", ".csv">>
ProcB == PROCESSED_PREFIX \o <<"b", ".csv">>
ProcC == PROCESSED_PREFIX \o <<"c", ".csv">>

CsvFile(rows) == [type |-> "csv", fieldnames |-> REQUIRED_FIELDS, rows |-> rows]

\* The uploads of sample.py: raw files in the bucket
RawStore ==
    (<<BUCKET_NAME, RawA>> :> CsvFile(<<RowOK, RowHigh, RowBad>>))
    @@ (<<BUCKET_NAME, RawB>> :> CsvFile(<<RowDec>>))
    @@ (<<BUCKET_NAME, RawC>> :> CsvFile(<<RowOK>>))

\* What a complete ingestion of the raw file at key leaves in the store
Ingested(store, key) ==
    LET obj == store[<<BUCKET_NAME, key>>]
        valid_rows == ValidRows(obj.rows)
        reject_rows == RejectRows(obj.rows)
        s1 == IF valid_rows # <<>>
              THEN PutObject(store, BUCKET_NAME, ProcessedKey(key),
                             csv_to_string(valid_rows, obj.fieldnames))
              ELSE store
        s2 == IF reject_rows # <<>>
              THEN PutObject(s1, BUCKET_NAME, RejectedKey(key),
                             csv_to_string(reject_rows, obj.fieldnames \o <<"reject_reason">>))
              ELSE s1
        s3a == PutObject(s2, BUCKET_NAME, ManifestKey(key),
                         Manifest(BUCKET_NAME, key, <<"null">>, valid_rows, reject_rows))
    IN  PutObject(s3a, BUCKET_NAME, marker_key(BUCKET_NAME, key, <<"null">>),
                  [type |-> "marker"])

\* The store once the raw files have been ingested
IngestedStore == Ingested(Ingested(Ingested(RawStore, RawA), RawB), RawC)

Unit(key) == [bucket |-> BUCKET_NAME, key |-> key]

\* Events of the concurrent pipeline: deliveries of the one file a.csv
IngestorEvents ==
    {[Records |-> <<Unit(RawA)>>]}

AnalyzerEvents ==
    {[Records |-> <<Unit(ProcA)>>],
     [source |-> "eventbridge", bucket |-> BUCKET_NAME, key |-> ProcA,
      correlation_id |-> DefaultCorrId(BUCKET_NAME, RawA, <<"null">>)]}

\* Events of one analyzer invocation on its own: every batch of up to
\* MaxBatch records, and the other event shapes
BatchUnits == {Unit(ProcA), Unit(ProcB), Unit(ProcC)}

RECURSIVE SeqsUpTo(_, _)
SeqsUpTo(S, n) ==
    IF n = 0 THEN {<<>>}
    ELSE LET shorter == SeqsUpTo(S, n - 1)
         IN  shorter \cup {Append(q, x) : q \in shorter, x \in S}

BatchEvents ==
    {[Records |-> batch] : batch \in SeqsUpTo(BatchUnits, MaxBatch)}
    \cup {[source |-> "eventbridge", bucket |-> BUCKET_NAME, key |-> ProcA,
           correlation_id |-> DefaultCorrId(BUCKET_NAME, RawA, <<"null">>)],
          [bucket |-> BUCKET_NAME, key |-> ProcC],
          [bucket |-> BUCKET_NAME, key |-> RawA],
          [detail |-> "other"]}

\* No invocation has started; the table and the bus are empty
InvIdle ==
    /\ ddb = {}
    /\ events = EmptyBag
    /\ pc = [i \in Invs |-> "idle"]
    /\ kind = [i \in Invs |-> "none"]
    /\ records = [i \in Invs |-> <<>>]
    /\ correlation_id = [i \in Invs |-> NoCorr]
    /\ idx = [i \in Invs |-> 1]
    /\ results = [i \in Invs |-> <<>>]
    /\ loc = [i \in Invs |-> NoLoc]
    /\ ret = [i \in Invs |-> NoRet]
    /\ raised = {}

PipeInit ==
    /\ s3 \in {RawStore, IngestedStore}
    /\ InvIdle

ValIdle ==
    /\ vrow = RowOK
    /\ vres = <<FALSE, "pending">>
    /\ vdone = FALSE

Init == PipeInit /\ ValIdle

IngestorInvoke(i) ==
    /\ \E event \in IngestorEvents : Start(i, "ingestor", IngestorEntry(event))
    /\ UNCHANGED valVars

AnalyzerInvoke(i) ==
    /\ \E event \in AnalyzerEvents : Start(i, "analyzer", AnalyzerEntry(event))
    /\ UNCHANGED valVars

Step(i) ==
    /\ \/ IngestorCheck(i)
       \/ IngestorRead(i)
       \/ IngestorPutProcessed(i)
       \/ IngestorPutRejected(i)
       \/ IngestorPutManifest(i)
       \/ IngestorPutMarker(i)
       \/ AnalyzerCheck(i)
       \/ AnalyzerRead(i)
       \/ AnalyzerLlm(i)
       \/ AnalyzerSave(i)
       \/ AnalyzerUpload(i)
       \/ AnalyzerMark(i)
       \/ AnalyzerEvent(i)
       \/ AnalyzerFailed(i)
       \/ Crash(i)
    /\ UNCHANGED valVars

Next == \E i \in Invs : IngestorInvoke(i) \/ AnalyzerInvoke(i) \/ Step(i)

Spec == Init /\ [][Next]_vars

\* One analyzer invocation working through its batch on an ingested store
BatchInit ==
    /\ PipeInit
    /\ s3 = IngestedStore
    /\ ValIdle

BatchInvoke ==
    /\ \E event \in BatchEvents : Start(1, "analyzer", AnalyzerEntry(event))
    /\ UNCHANGED valVars

BatchStep ==
    /\ \/ AnalyzerCheck(1)
       \/ AnalyzerRead(1)
       \/ AnalyzerLlm(1)
       \/ AnalyzerSave(1)
       \/ AnalyzerUpload(1)
       \/ AnalyzerMark(1)
       \/ AnalyzerEvent(1)
       \/ AnalyzerFailed(1)
    /\ UNCHANGED valVars

BatchNext == BatchInvoke \/ BatchStep

SpecBatch == BatchInit /\ [][BatchNext]_vars

\* One ingestor invocation on a raw file of up to MaxRows rows
RowMissing == [RowOK EXCEPT !.spo2 = Absent]
RowCross == [RowOK EXCEPT !.systolic_bp = IntCell(100), !.diastolic_bp = IntCell(105)]

IngestRows == {RowOK, RowBad, RowDec, RowMissing, RowCross}

IngestInit ==
    /\ \E rows \in SeqsUpTo(IngestRows, MaxRows) :
          s3 = (<<BUCKET_NAME, RawA>> :> CsvFile(rows))
    /\ InvIdle
    /\ ValIdle

IngestInvoke ==
    /\ Start(1, "ingestor", IngestorEntry([Records |-> <<Unit(RawA)>>]))
    /\ UNCHANGED valVars

IngestStep ==
    /\ \/ IngestorCheck(1)
       \/ IngestorRead(1)
       \/ IngestorPutProcessed(1)
       \/ IngestorPutRejected(1)
       \/ IngestorPutManifest(1)
       \/ IngestorPutMarker(1)
    /\ UNCHANGED valVars

IngestNext == IngestInvoke \/ IngestStep

SpecIngest == IngestInit /\ [][IngestNext]_vars

\* One analyzer invocation on a processed file of up to MaxRows rows: rows at
\* and next to each threshold of detect_anomalies, all of them rows the
\* validator accepts, and the row with heart_rate 165 and spo2 85
RowEdge ==
    [RowOK EXCEPT !.heart_rate = IntCell(60), !.spo2 = IntCell(92),
                  !.temp_c = DecCell(380), !.systolic_bp = IntCell(140),
                  !.diastolic_bp = IntCell(90)]
RowSlow == [RowEdge EXCEPT !.heart_rate = IntCell(59)]
RowFastEdge == [RowEdge EXCEPT !.heart_rate = IntCell(160)]
RowFast == [RowEdge EXCEPT !.heart_rate = IntCell(161)]
RowLowSpo2 == [RowEdge EXCEPT !.spo2 = IntCell(91)]
RowFever == [RowEdge EXCEPT !.temp_c = DecCell(381)]
RowSys == [RowEdge EXCEPT !.systolic_bp = IntCell(141)]
RowDia == [RowEdge EXCEPT !.diastolic_bp = IntCell(91)]
RowAll ==
    [RowOK EXCEPT !.heart_rate = IntCell(161), !.spo2 = IntCell(91),
                  !.temp_c = DecCell(381), !.systolic_bp = IntCell(141),
                  !.diastolic_bp = IntCell(91)]
RowExample == [RowOK EXCEPT !.heart_rate = IntCell(165), !.spo2 = IntCell(85)]
RowFastDec == [RowOK EXCEPT !.heart_rate = DecCell(1655)]

DetectRows ==
    {RowOK, RowEdge, RowSlow, RowFastEdge, RowFast, RowLowSpo2, RowFever,
     RowSys, RowDia, RowAll, RowExample, RowFastDec}

AnalyzeInit ==
    /\ \E rows \in SeqsUpTo(DetectRows, MaxRows) :
          s3 = (<<BUCKET_NAME, ProcA>> :> CsvFile(rows))
    /\ InvIdle
    /\ ValIdle

AnalyzeInvoke ==
    /\ Start(1, "analyzer", AnalyzerEntry([Records |-> <<Unit(ProcA)>>]))
    /\ UNCHANGED valVars

AnalyzeNext == AnalyzeInvoke \/ BatchStep

SpecAnalyze == AnalyzeInit /\ [][AnalyzeNext]_vars

----------------------------------------------------------------------------
(* Notifier lambda_handler *)

\* A DynamoDB attribute carries its type: a string (S) or a map (M)
Str(text) == [S |-> text]
Map(m) == [M |-> m]
IsStr(v) == "S" \in DOMAIN v
IsDict(v) == "M" \in DOMAIN v

\* s.strip() on a token sequence whose blanks are the tokens " "
RECURSIVE LStrip(_)
LStrip(s) == IF s # <<>> /\ Head(s) = " " THEN LStrip(Tail(s)) ELSE s

RECURSIVE RStrip(_)
RStrip(s) ==
    IF s # <<>> /\ s[Len(s)] = " " THEN RStrip(SubSeq(s, 1, Len(s) - 1)) ELSE s

Strip(s) == LStrip(RStrip(s))

\* items[:n]
Take(s, n) == SubSeq(s, 1, IF Len(s) < n THEN Len(s) ELSE n)

\* sorted(all_items, key=analysis_timestamp, reverse=True); the timestamps
\* of the table's items are distinct
RECURSIVE SortNewestFirst(_)
SortNewestFirst(S) ==
    IF S = {} THEN <<>>
    ELSE LET newest == CHOOSE it \in S :
                           \A other \in S : other.analysis_timestamp <= it.analysis_timestamp
         IN  <<newest>> \o SortNewestFirst(S \ {newest})

\* Lines 119-153
fetch_recent_analysis(table, corr_id, limit) ==
    IF corr_id # NoCorr
    THEN Take(SortNewestFirst({it \in table : it.correlation_id = corr_id}), limit)
    ELSE Take(SortNewestFirst(table), limit)

\* Lines 156-175
extract_insights_and_recommendations(items) ==
    IF items = <<>>
    THEN <<<<>>, <<>>>>
    ELSE <<Get(items[1], "insights", <<>>), Get(items[1], "recommendations", <<>>)>>

\* " ".join(texts)
RECURSIVE JoinBlank(_)
JoinBlank(texts) ==
    IF texts = <<>> THEN <<>>
    ELSE IF Len(texts) = 1 THEN texts[1]
    ELSE texts[1] \o <<" ">> \o JoinBlank(Tail(texts))

\* bool(v) of a string or a number
Truthy(v) == IF IsStr(v) THEN v.S # <<>> ELSE v.N # 0

\* Lines 181-202: the text of one item's summary, [ok, text]; a
\* health_status that is truthy and no string has no strip() (line 196)
SummaryText(item) ==
    LET summary_val == Get(item, "summary", Map([x \in {} |-> <<>>]))
    IN  IF IsDict(summary_val)
        THEN LET health_status == Get(summary_val.M, "health_status", Str(<<>>))
                 key_findings == Get(summary_val.M, "key_findings", <<>>)
                 findings_texts ==
                     SelectSeq(key_findings, LAMBDA v : IsStr(v))
                 stripped ==
                     [k \in 1..Len(findings_texts) |-> Strip(findings_texts[k].S)]
                 head == IF Truthy(health_status) THEN Strip(health_status.S) ELSE <<>>
             IN  IF Truthy(health_status) /\ ~IsStr(health_status)
                 THEN [ok |-> FALSE, text |-> <<>>]
                 ELSE IF findings_texts # <<>>
                 THEN [ok |-> TRUE,
                       text |-> head \o <<" Key findings: ">> \o JoinBlank(stripped)]
                 ELSE [ok |-> TRUE, text |-> head]
        ELSE IF IsStr(summary_val)
        THEN [ok |-> TRUE, text |-> Strip(summary_val.S)]
        ELSE [ok |-> TRUE, text |-> <<>>]

DefaultSummary ==
    <<"Health data analysis completed successfully. Regular monitoring continues.">>

\* A summary whose emptiness is not looked at
format_executive_summary_nodefault(items) ==
    LET texts == [k \in 1..Len(items) |-> SummaryText(items[k]).text]
    IN  [ok |-> \A k \in 1..Len(items) : SummaryText(items[k]).ok,
         val |-> IF texts = <<>> THEN DefaultSummary ELSE texts[1]]

\* Lines 177-211: [ok, val]
format_executive_summary(items) ==
    LET texts == [k \in 1..Len(items) |-> SummaryText(items[k]).text]
        summaries ==
            SelectSeq(texts, LAMBDA t : t # <<>> /\ t # <<"Analysis completed.">>)
    IN  [ok |-> \A k \in 1..Len(items) : SummaryText(items[k]).ok,
         val |-> IF summaries = <<>> THEN DefaultSummary ELSE summaries[1]]

\* Lines 63-69: the manifest key a correlation id leads to; a correlation id
\* with fewer than three parts leaves manifest_key as the previous pass set it
HasToken(s, t) == \E k \in 1..Len(s) : s[k] = t

Parts(s) == Cardinality({k \in 1..Len(s) : s[k] = "/"}) + 1

RECURSIVE BeforeAt(_)
BeforeAt(s) ==
    IF s = <<>> \/ Head(s) = "@" THEN <<>> ELSE <<Head(s)>> \o BeforeAt(Tail(s))

NoKey == <<>>

ManifestKeyOf(corr_id, previous) ==
    IF Parts(corr_id) >= 3
    THEN PROCESSED_PREFIX \o Replace(BeforeAt(basename(corr_id)), <<".csv">>, <<>>)
             \o <<"_", "manifest", ".json">>
    ELSE previous

NoStats ==
    [total_input |-> 0, total_valid |-> 0, total_rejected |-> 0,
     files_processed |-> 0, manifests_found |-> <<>>]

\* Lines 60-108: the loop of fetch_manifest_data from position k on;
\* answered[k] says whether get_object answers the k-th request
RECURSIVE ManifestLoop(_, _, _, _, _, _)
ManifestLoop(store, correlation_ids, answered, k, manifest_key, stats) ==
    IF k > Len(correlation_ids) THEN stats
    ELSE LET corr_id == correlation_ids[k]
             wellFormed == HasToken(corr_id, "/") /\ HasToken(corr_id, "@")
             key == IF wellFormed THEN ManifestKeyOf(corr_id, manifest_key)
                    ELSE manifest_key
             found == /\ wellFormed
                      /\ key # NoKey
                      /\ answered[k]
                      /\ <<BUCKET_NAME, key>> \in DOMAIN store
             counts == Get(store[<<BUCKET_NAME, key>>], "counts", [x \in {} |-> 0])
             next ==
                 IF found
                 THEN [total_input |-> stats.total_input + Get(counts, "input", 0),
                       total_valid |-> stats.total_valid + Get(counts, "valid", 0),
                       total_rejected |-> stats.total_rejected + Get(counts, "rejected", 0),
                       files_processed |-> stats.files_processed + 1,
                       manifests_found |-> Append(stats.manifests_found,
                           [correlation_id |-> corr_id, manifest_key |-> key,
                            counts |-> counts])]
                 ELSE stats
         IN  ManifestLoop(store, correlation_ids, answered, k + 1, key, next)

\* Lines 45-116
fetch_manifest_data(store, correlation_ids, answered) ==
    ManifestLoop(store, correlation_ids, answered, 1, NoKey, NoStats)

RECURSIVE SumSeq(_)
SumSeq(s) == IF s = <<>> THEN 0 ELSE Head(s) + SumSeq(Tail(s))

\* Lines 320-328: the totals and the anomaly frequencies over the items
\* A total that looks at the newest item only
TotalAnalyzedRows_latest(items) ==
    IF items = <<>> THEN 0 ELSE Get(items[1], "records_analyzed", 0)

TotalAnalyzedRows(items) ==
    SumSeq([k \in 1..Len(items) |-> Get(items[k], "records_analyzed", 0)])

TotalAnomalies(items) ==
    SumSeq([k \in 1..Len(items) |-> Len(Get(items[k], "anomalies", <<>>))])

AnomaliesOf(item) == Get(item, "anomalies", <<>>)

AnomalyLabel(a) == Get(a, "anomaly", "Unknown")

\* The labels of all findings of the items, in the order the loops visit them
RECURSIVE AllLabels(_)
AllLabels(items) ==
    IF items = <<>> THEN <<>>
    ELSE [j \in 1..Len(AnomaliesOf(Head(items))) |->
             AnomalyLabel(AnomaliesOf(Head(items))[j])]
         \o AllLabels(Tail(items))

\* Lines 324-328: top_anomalies.items(), pairs <<label, count>> in the order
\* the dict got its keys
RECURSIVE CountLabels(_, _)
CountLabels(labels, counted) ==
    IF labels = <<>> THEN counted
    ELSE LET key == Head(labels)
             seen == \E k \in 1..Len(counted) : counted[k][1] = key
             next == IF seen
                     THEN [k \in 1..Len(counted) |->
                              IF counted[k][1] = key
                              THEN <<key, counted[k][2] + 1>>
                              ELSE counted[k]]
                     ELSE Append(counted, <<key, 1>>)
         IN  CountLabels(Tail(labels), next)

TopAnomalies(items) == CountLabels(AllLabels(items), <<>>)

\* An insertion that puts a pair before the pairs of equal count
InsertByCount_first(sorted, pair) ==
    LET before == {k \in 1..Len(sorted) : sorted[k][2] > pair[2]}
        n == Cardinality(before)
    IN  SubSeq(sorted, 1, n) \o <<pair>> \o SubSeq(sorted, n + 1, Len(sorted))

\* Line 331: sorted(..., key=count, reverse=True) keeps pairs of equal count
\* in their order
InsertByCount(sorted, pair) ==
    LET before == {k \in 1..Len(sorted) : sorted[k][2] >= pair[2]}
        n == Cardinality(before)
    IN  SubSeq(sorted, 1, n) \o <<pair>> \o SubSeq(sorted, n + 1, Len(sorted))

RECURSIVE SortByCount(_, _)
SortByCount(pairs, sorted) ==
    IF pairs = <<>> THEN sorted
    ELSE SortByCount(Tail(pairs), InsertByCount(sorted, Head(pairs)))

SortedAnomalies(items) == SortByCount(TopAnomalies(items), <<>>)

\* Lines 259-278: the correlation id and the kind of an event
NotifierEntry(event) ==
    IF "detail" \in DOMAIN event /\ Get(event, "source", "") = "health.data.analyzer"
    THEN [correlation_id |-> Get(event["detail"], "correlation_id", NoCorr),
          event_type |-> "eventbridge"]
    ELSE IF "correlation_id" \in DOMAIN event
    THEN [correlation_id |-> event["correlation_id"], event_type |-> "direct"]
    ELSE [correlation_id |-> NoCorr, event_type |-> "fallback"]

\* Lines 247-278
NotifierStart(i, event) ==
    /\ pc[i] = "idle"
    /\ \A j \in Invs : j < i => pc[j] # "idle"
    /\ kind' = [kind EXCEPT ![i] = "notifier"]
    /\ correlation_id' = [correlation_id EXCEPT ![i] = NotifierEntry(event).correlation_id]
    /\ loc' = [loc EXCEPT ![i] = [event_type |-> NotifierEntry(event).event_type]]
    /\ pc' = [pc EXCEPT ![i] = "fetch"]
    /\ UNCHANGED <<s3, ddb, events, records, idx, results, ret, raised>>

\* The handler has no try block around its body: what raises ends the invocation
NotifierRaise(i, err) ==
    /\ pc' = [pc EXCEPT ![i] = "crashed"]
    /\ ret' = [ret EXCEPT ![i] = [status |-> "raised", error |-> err]]
    /\ UNCHANGED <<s3, ddb, events, kind, records, correlation_id, idx, results, loc, raised>>

\* Lines 280-306: the items in scope
NotifierFetch(i) ==
    /\ kind[i] = "notifier" /\ pc[i] = "fetch"
    /\ \/ NotifierRaise(i, "query failed")
       \/ LET items == IF correlation_id[i] # NoCorr
                       THEN fetch_recent_analysis(ddb, correlation_id[i], 1)
                       ELSE fetch_recent_analysis(ddb, NoCorr, 5)
              correlation_ids ==
                  IF correlation_id[i] # NoCorr
                  THEN <<correlation_id[i]>>
                  ELSE LET ids == [k \in 1..Len(items) |->
                                      Get(items[k], "correlation_id", NoCorr)]
                       IN  SelectSeq(ids, LAMBDA c : c # NoCorr)
          IN  /\ IF items = <<>>
                 THEN /\ pc' = [pc EXCEPT ![i] = "returned"]
                      /\ ret' = [ret EXCEPT ![i] =
                                  [status |-> "no_data",
                                   message |-> "No analysis data found"]]
                      /\ loc' = loc
                 ELSE /\ pc' = [pc EXCEPT ![i] = "manifests"]
                      /\ ret' = ret
                      /\ loc' = [loc EXCEPT ![i] =
                                  [event_type |-> loc[i].event_type,
                                   items |-> items,
                                   correlation_ids |-> correlation_ids,
                                   scope |-> IF correlation_id[i] # NoCorr
                                            THEN <<"Current file only">>
                                            ELSE <<"Last", Len(correlation_ids),
                                                   "processed files">>]]
              /\ UNCHANGED <<s3, ddb, events, kind, records, correlation_id,
                             idx, results, raised>>

\* Lines 317-350: the processing statistics and the report's content
NotifierManifests(i) ==
    /\ kind[i] = "notifier" /\ pc[i] = "manifests"
    /\ IF ~format_executive_summary(loc[i].items).ok
       THEN NotifierRaise(i, "AttributeError")
       ELSE /\ \E answered \in [1..Len(loc[i].correlation_ids) -> BOOLEAN] :
                loc' = [loc EXCEPT ![i] =
                    [event_type |-> loc[i].event_type,
                     items |-> loc[i].items,
                     correlation_ids |-> loc[i].correlation_ids,
                     scope |-> loc[i].scope,
                     processing_stats |->
                         fetch_manifest_data(s3, loc[i].correlation_ids, answered),
                     total_analyzed_rows |-> TotalAnalyzedRows(loc[i].items),
                     total_anomalies |-> TotalAnomalies(loc[i].items),
                     top_anomalies |-> TopAnomalies(loc[i].items),
                     sorted_anomalies |-> SortedAnomalies(loc[i].items),
                     insights |-> extract_insights_and_recommendations(loc[i].items)[1],
                     recommendations |->
                         extract_insights_and_recommendations(loc[i].items)[2],
                     executive_summary |-> format_executive_summary(loc[i].items).val,
                     attempt |-> 0,
                     attempts |-> 0,
                     waits |-> <<>>,
                     email_sent |-> FALSE]]
            /\ pc' = [pc EXCEPT ![i] = "send"]
            /\ UNCHANGED <<s3, ddb, events, kind, records, correlation_id, idx,
                           results, ret, raised>>

\* Lines 668-678
NotifierReturn(i, email_sent) ==
    [status |-> IF email_sent THEN "success" ELSE "failed",
     event_type |-> loc[i].event_type,
     scope |-> loc[i].scope,
     processing_stats |-> loc[i].processing_stats,
     total_analyzed_rows |-> loc[i].total_analyzed_rows,
     total_anomalies |-> loc[i].total_anomalies,
     email_sent |-> email_sent,
     latest_analysis_timestamp |-> Get(loc[i].items[1], "analysis_timestamp", "None")]

\* Lines 654-661: update_item sets the two attributes of the item with this
\* key, creating the item when the table has none
UpdateItem(table, item) ==
    IF \E it \in table : /\ it.correlation_id = item.correlation_id
                         /\ it.analysis_timestamp = item.analysis_timestamp
    THEN {IF /\ it.correlation_id = item.correlation_id
             /\ it.analysis_timestamp = item.analysis_timestamp
          THEN [it EXCEPT !.notification_sent = TRUE, !.notification_timestamp = "now"]
          ELSE it : it \in table}
    ELSE table \cup {[correlation_id |-> item.correlation_id,
                      analysis_timestamp |-> item.analysis_timestamp,
                      notification_sent |-> TRUE,
                      notification_timestamp |-> "now"]}

RECURSIVE UpdateLoop(_, _, _, _)
UpdateLoop(table, items, updated, k) ==
    IF k > Len(items) THEN table
    ELSE UpdateLoop(IF updated[k] THEN UpdateItem(table, items[k]) ELSE table,
                    items, updated, k + 1)

\* Line 215: send_email(subject, body_text, body_html, retries=3, delay=2)
retries == 3
delay == 2

\* Lines 16-17: the sender and the recipients the deployment configures
SES_SENDER == <<"reports@example.org">>
SES_RECIPIENTS == <<<<"care@example.org">>>>

\* Lines 216-242, one pass of the loop of send_email: ses.send_email answers
\* or raises; what send_email returns is email_sent of line 647
NotifierSend(i) ==
    /\ kind[i] = "notifier" /\ pc[i] = "send"
    /\ IF SES_SENDER = <<>> \/ SES_RECIPIENTS = <<>>
       THEN /\ pc' = [pc EXCEPT ![i] = "update"]
            /\ loc' = [loc EXCEPT ![i].email_sent = FALSE]
       ELSE \E sent \in BOOLEAN :
            IF sent
            THEN /\ pc' = [pc EXCEPT ![i] = "update"]
                 /\ loc' = [loc EXCEPT ![i].attempts = @ + 1, ![i].email_sent = TRUE]
            ELSE IF loc[i].attempt < retries - 1
            THEN /\ pc' = [pc EXCEPT ![i] = "sleep"]
                 /\ loc' = [loc EXCEPT ![i].attempts = @ + 1]
            ELSE /\ pc' = [pc EXCEPT ![i] = "update"]
                 /\ loc' = [loc EXCEPT ![i].attempts = @ + 1, ![i].email_sent = FALSE]
    /\ UNCHANGED <<s3, ddb, events, kind, records, correlation_id, idx,
                   results, ret, raised>>

\* A backoff that starts at twice the delay
NotifierSleep_doubled(i) ==
    /\ kind[i] = "notifier" /\ pc[i] = "sleep"
    /\ loc' = [loc EXCEPT ![i].waits = Append(@, delay * (2 ^ (loc[i].attempt + 1))),
                          ![i].attempt = @ + 1]
    /\ pc' = [pc EXCEPT ![i] = "send"]
    /\ UNCHANGED <<s3, ddb, events, kind, records, correlation_id, idx,
                   results, ret, raised>>

\* Lines 239-240: time.sleep(delay * (2 ** attempt)), then the next pass
NotifierSleep(i) ==
    /\ kind[i] = "notifier" /\ pc[i] = "sleep"
    /\ loc' = [loc EXCEPT ![i].waits = Append(@, delay * (2 ^ loc[i].attempt)),
                          ![i].attempt = @ + 1]
    /\ pc' = [pc EXCEPT ![i] = "send"]
    /\ UNCHANGED <<s3, ddb, events, kind, records, correlation_id, idx,
                   results, ret, raised>>

\* Notification flags set whatever send_email returned
NotifierUpdate_unguarded(i) ==
    /\ kind[i] = "notifier" /\ pc[i] = "update"
    /\ \E updated \in [1..Len(loc[i].items) -> BOOLEAN] :
          ddb' = UpdateLoop(ddb, loc[i].items, updated, 1)
    /\ ret' = [ret EXCEPT ![i] = NotifierReturn(i, loc[i].email_sent)]
    /\ pc' = [pc EXCEPT ![i] = "returned"]
    /\ UNCHANGED <<s3, events, kind, records, correlation_id, idx, results,
                   loc, raised>>

\* Lines 649-678: when the email went out, the notification flags, a failed
\* update_item being logged; then the return value
NotifierUpdate(i) ==
    /\ kind[i] = "notifier" /\ pc[i] = "update"
    /\ IF loc[i].email_sent
       THEN \E updated \in [1..Len(loc[i].items) -> BOOLEAN] :
                ddb' = UpdateLoop(ddb, loc[i].items, updated, 1)
       ELSE ddb' = ddb
    /\ ret' = [ret EXCEPT ![i] = NotifierReturn(i, loc[i].email_sent)]
    /\ pc' = [pc EXCEPT ![i] = "returned"]
    /\ UNCHANGED <<s3, events, kind, records, correlation_id, idx, results,
                   loc, raised>>

\* The table the notifier reads: analysis records of two files and one of an
\* invocation without correlation id, with the shapes of summary the table holds
CorrA == DefaultCorrId(BUCKET_NAME, RawA, <<"null">>)
CorrB == DefaultCorrId(BUCKET_NAME, RawB, <<"null">>)

AnalysisRecord(corr_id, stamp, n, labels, insights, recommendations, summary) ==
    [correlation_id |-> corr_id,
     analysis_id |-> stamp,
     analysis_timestamp |-> stamp,
     records_analyzed |-> n,
     anomalies |-> [k \in 1..Len(labels) |-> [anomaly |-> labels[k]]],
     insights |-> insights,
     recommendations |-> recommendations,
     summary |-> summary,
     notification_sent |-> FALSE,
     notification_timestamp |-> "None"]

RecA1 ==
    AnalysisRecord(CorrA, 1, 2, <<"Abnormal heart rate">>,
        <<"Average heart rate elevated", "Low SpO2 episodes">>,
        <<"Consult cardiologist">>,
        Str(<<"Two readings need attention">>))

RecB2 ==
    AnalysisRecord(CorrB, 2, 2, <<"Abnormal heart rate", "Fever">>,
        <<"Low SpO2 episodes", "Fever detected">>,
        <<"Consult cardiologist", "Rest and hydrate">>,
        Map([health_status |-> Str(<<"stable">>),
             key_findings |-> <<Str(<<"x">>), [N |-> 3], Str(<<"y", " ">>)>>]))

RecA3 ==
    AnalysisRecord(CorrA, 3, 2, <<"Fever", "Abnormal heart rate">>,
        <<"Blood pressure stable">>,
        <<>>,
        Str(<<"Analysis completed.">>))

RecU4 ==
    AnalysisRecord(<<"unknown">>, 4, 2, <<"Abnormal heart rate", "Low SpO2">>,
        <<>>,
        <<"Rest and hydrate">>,
        Str(<<" ", "plain text summary", " ">>))

\* A record holding the placeholder texts the summarizer is told to use
RecS5 ==
    AnalysisRecord(CorrB, 5, 2, <<"Abnormal heart rate", "Fever">>,
        <<"No major trends observed">>,
        <<"No recommendations">>,
        Str(<<"No major trends observed">>))

\* A record that holds its keys and the notification attributes only
RecBare6 ==
    [correlation_id |-> CorrA, analysis_id |-> 6, analysis_timestamp |-> 6,
     notification_sent |-> FALSE, notification_timestamp |-> "None"]

NotifyRecords == {RecA1, RecB2, RecA3, RecU4, RecS5, RecBare6}

MaxRecords == 3

NotifyTables == {T \in SUBSET NotifyRecords : Cardinality(T) <= MaxRecords}

\* The completion event of the analyzer as the bus delivers it, a direct
\* invocation naming a correlation id, and an invocation that names none
NotifierEvents ==
    {[source |-> "health.data.analyzer", detail_type |-> "Data Analysis Complete",
      detail |-> [correlation_id |-> CorrA, status |-> "success"]],
     [correlation_id |-> CorrB],
     [source |-> "manual"]}

\* One notifier invocation on a table the analyzer has filled
NotifyInit ==
    /\ s3 = IngestedStore
    /\ ddb \in NotifyTables
    /\ events = EmptyBag
    /\ pc = [i \in Invs |-> "idle"]
    /\ kind = [i \in Invs |-> "none"]
    /\ records = [i \in Invs |-> <<>>]
    /\ correlation_id = [i \in Invs |-> NoCorr]
    /\ idx = [i \in Invs |-> 1]
    /\ results = [i \in Invs |-> <<>>]
    /\ loc = [i \in Invs |-> NoLoc]
    /\ ret = [i \in Invs |-> NoRet]
    /\ raised = {}
    /\ ValIdle

NotifyInvoke ==
    /\ \E event \in NotifierEvents : NotifierStart(1, event)
    /\ UNCHANGED valVars

NotifyStep ==
    /\ \/ NotifierFetch(1)
       \/ NotifierManifests(1)
       \/ NotifierSend(1)
       \/ NotifierSleep(1)
       \/ NotifierUpdate(1)
    /\ UNCHANGED valVars

NotifyNext == NotifyInvoke \/ NotifyStep

SpecNotify == NotifyInit /\ [][NotifyNext]_vars

\* Inside send_email the runtime keeps going: ses.send_email returns or
\* raises, and time.sleep returns
SendEmailStep == (NotifierSend(1) \/ NotifierSleep(1)) /\ UNCHANGED valVars

SpecNotifyLive == SpecNotify /\ WF_vars(SendEmailStep)

\* format_executive_summary on up to MaxItems records, over the shapes a
\* summary attribute can have: texts (plain, empty, blank, the analyzer's
\* default, JSON, fenced JSON), maps (complete, partial, empty, with a numeric
\* health_status), and no summary attribute at all
JsonText == <<"{", "summary", ":", "z", "}">>
FencedJsonText == <<"fence", "json">> \o JsonText \o <<"fence">>

SummaryShapes ==
    {Str(<<"plain text summary">>),
     Str(<<>>),
     Str(<<" ">>),
     Str(<<"Analysis completed.">>),
     Str(JsonText),
     Str(FencedJsonText),
     Map([health_status |-> Str(<<"stable">>),
          key_findings |-> <<Str(<<"x">>), Str(<<"y">>)>>]),
     Map([key_findings |-> <<Str(<<"x">>)>>]),
     Map([x \in {} |-> <<>>]),
     Map([health_status |-> [N |-> 3], key_findings |-> <<>>])}

SummaryItems ==
    {[analysis_id |-> 1, summary |-> v] : v \in SummaryShapes}
    \cup {[analysis_id |-> 1]}

MaxItems == 3

SummaryInit ==
    /\ s3 = IngestedStore
    /\ ddb = {}
    /\ events = EmptyBag
    /\ pc = [i \in Invs |-> IF i = 1 THEN "summary" ELSE "idle"]
    /\ kind = [i \in Invs |-> IF i = 1 THEN "notifier" ELSE "none"]
    /\ records = [i \in Invs |-> <<>>]
    /\ correlation_id = [i \in Invs |-> NoCorr]
    /\ idx = [i \in Invs |-> 1]
    /\ results = [i \in Invs |-> <<>>]
    /\ \E items \in SeqsUpTo(SummaryItems, MaxItems) :
          loc = [i \in Invs |-> IF i = 1 THEN [items |-> items] ELSE NoLoc]
    /\ ret = [i \in Invs |-> NoRet]
    /\ raised = {}
    /\ ValIdle

\* Line 337
FormatSummary ==
    /\ pc[1] = "summary"
    /\ LET r == format_executive_summary(loc[1].items)
       IN  loc' = [loc EXCEPT ![1] =
                      [items |-> loc[1].items, ok |-> r.ok,
                       executive_summary |-> IF r.ok THEN r.val ELSE <<>>]]
    /\ pc' = [pc EXCEPT ![1] = "formatted"]
    /\ UNCHANGED <<s3, ddb, events, kind, records, correlation_id, idx,
                   results, ret, raised>>
    /\ UNCHANGED valVars

SummaryNext == FormatSummary

SpecSummary == SummaryInit /\ [][SummaryNext]_vars

\* The analyzer on a delivery of a.csv (twice in one batch, or with the
\* ingestor's correlation id) and, beside it, one notifier invocation: on a
\* completion event the bus holds, or on an event without correlation id
ReportAnalyzerEvents ==
    {[Records |-> <<Unit(ProcA), Unit(ProcA)>>],
     [source |-> "eventbridge", bucket |-> BUCKET_NAME, key |-> ProcA,
      correlation_id |-> CorrA]}

ReportInit ==
    /\ s3 = IngestedStore
    /\ InvIdle
    /\ ValIdle

ReportAnalyze ==
    /\ \E event \in ReportAnalyzerEvents : Start(1, "analyzer", AnalyzerEntry(event))
    /\ UNCHANGED valVars

ReportNotify ==
    /\ \E event \in BagToSet(events) \cup {[source |-> "manual"]} :
          NotifierStart(2, event)
    /\ UNCHANGED valVars

ReportStep ==
    /\ \/ NotifierFetch(2)
       \/ NotifierManifests(2)
       \/ NotifierSend(2)
       \/ NotifierSleep(2)
       \/ NotifierUpdate(2)
    /\ UNCHANGED valVars

ReportNext == ReportAnalyze \/ BatchStep \/ ReportNotify \/ ReportStep

SpecReport == ReportInit /\ [][ReportNext]_vars

\* The completion event of one analysis delivered more than once: each
\* delivery starts a notifier invocation, at the same time or one after another
CompleteA ==
    [source |-> "health.data.analyzer", detail_type |-> "Data Analysis Complete",
     detail |-> [correlation_id |-> CorrA, status |-> "success"]]

RedeliverInit ==
    /\ NotifyInit
    /\ ddb = {RecA1}

RedeliverInvoke ==
    /\ \E i \in Invs : NotifierStart(i, CompleteA)
    /\ UNCHANGED valVars

RedeliverStep ==
    /\ \E i \in Invs :
          \/ NotifierFetch(i)
          \/ NotifierManifests(i)
          \/ NotifierSend(i)
          \/ NotifierSleep(i)
          \/ NotifierUpdate(i)
    /\ UNCHANGED valVars

RedeliverNext == RedeliverInvoke \/ RedeliverStep

SpecRedeliver == RedeliverInit /\ [][RedeliverNext]_vars

\* One invocation of either lambda on an event of any shape: the three
\* shapes the handlers read, a batch whose second record has no object key,
\* and events that lack the fields the handlers look for
EntryEvents ==
    {[Records |-> <<Unit(RawA)>>],
     [Records |-> <<Unit(ProcA)>>],
     [Records |-> <<Unit(ProcA), [bucket |-> BUCKET_NAME]>>],
     [bucket |-> BUCKET_NAME, key |-> RawA],
     [bucket |-> BUCKET_NAME, key |-> ProcA],
     [source |-> "eventbridge", bucket |-> BUCKET_NAME, key |-> ProcA,
      correlation_id |-> CorrA],
     [detail |-> "other"],
     [bucket |-> BUCKET_NAME],
     [key |-> ProcA],
     [source |-> "aws.s3", detail |-> "other"],
     [source |-> "eventbridge"],
     [source |-> "eventbridge", bucket |-> BUCKET_NAME]}

EntryOf(lambda, event) ==
    IF lambda = "ingestor" THEN IngestorEntry(event) ELSE AnalyzerEntry(event)

EntryInvoke ==
    /\ \E event \in EntryEvents, lambda \in {"ingestor", "analyzer"} :
          Start(1, lambda, EntryOf(lambda, event))
    /\ UNCHANGED valVars

EntryNext == EntryInvoke \/ Step(1)

SpecEntry == Init /\ [][EntryNext]_vars

----------------------------------------------------------------------------
(* One ingestor invocation on raw files whose keys differ in "/" and "__" *)

KeyNested == RAW_PREFIX \o <<"a", "/", "b", ".csv">>
KeyFlat == RAW_PREFIX \o <<"a", "_", "_", "b", ".csv">>

MarkerUnits == {Unit(KeyNested), Unit(KeyFlat)}

MarkerInit ==
    /\ s3 = (<<BUCKET_NAME, KeyNested>> :> CsvFile(<<RowOK, RowBad>>))
            @@ (<<BUCKET_NAME, KeyFlat>> :> CsvFile(<<RowHigh>>))
    /\ InvIdle
    /\ ValIdle

MarkerInvoke ==
    /\ \E batch \in SeqsUpTo(MarkerUnits, MaxBatch) :
          /\ batch # <<>>
          /\ Start(1, "ingestor", IngestorEntry([Records |-> batch]))
    /\ UNCHANGED valVars

MarkerNext == MarkerInvoke \/ IngestStep

SpecMarkers == MarkerInit /\ [][MarkerNext]_vars

----------------------------------------------------------------------------
(* One ingestor invocation on raw files of the same name in two folders *)

KeyAX == RAW_PREFIX \o <<"a", "/", "x", ".csv">>
KeyBX == RAW_PREFIX \o <<"b", "/", "x", ".csv">>

OutputKeys == {KeyAX, KeyBX}

OutputInit ==
    /\ s3 = (<<BUCKET_NAME, KeyAX>> :> CsvFile(<<RowOK, RowHigh>>))
            @@ (<<BUCKET_NAME, KeyBX>> :> CsvFile(<<RowHigh, RowBad>>))
    /\ InvIdle
    /\ ValIdle

OutputInvoke ==
    /\ \E batch \in SeqsUpTo({Unit(key) : key \in OutputKeys}, MaxBatch) :
          /\ batch # <<>>
          /\ Start(1, "ingestor", IngestorEntry([Records |-> batch]))
    /\ UNCHANGED valVars

OutputNext == OutputInvoke \/ IngestStep

SpecOutputs == OutputInit /\ [][OutputNext]_vars

----------------------------------------------------------------------------
(* One processed file delivered to the analyzer again and again *)

RetryKeys == {ProcA, ProcB}

MaxEvents == 2          \* events the bus accepts in one behaviour

\* The store holds one processed file, as the ingestor wrote it: a.csv with
\* integer readings, or b.csv with a heart rate written as a decimal
RetryInit ==
    /\ \E key \in RetryKeys :
          s3 = (<<BUCKET_NAME, key>> :> IngestedStore[<<BUCKET_NAME, key>>])
    /\ InvIdle
    /\ ValIdle

\* The object-store notification of the file, delivered to a free handler
RetryDeliver ==
    /\ \E i \in Invs, key \in RetryKeys :
          /\ <<BUCKET_NAME, key>> \in DOMAIN s3
          /\ Start(i, "analyzer", AnalyzerEntry([Records |-> <<Unit(key)>>]))
    /\ UNCHANGED valVars

\* Errors of the collaborators: object store, summarizer, structured store
CollaboratorErrors ==
    {"get_object failed", "invoke_model failed", "JSONDecodeError", "put_item failed",
     "put_object failed"}

\* A step of invocation i in an environment whose collaborators fail finitely
\* often: a handler slot meets at most one failed call, and the bus stops
\* accepting events after MaxEvents
RetryStep(i) ==
    /\ \/ AnalyzerCheck(i)
       \/ AnalyzerRead(i)
       \/ AnalyzerLlm(i)
       \/ AnalyzerSave(i)
       \/ AnalyzerUpload(i)
       \/ AnalyzerMark(i)
       \/ AnalyzerEvent(i)
       \/ AnalyzerFailed(i)
    /\ (pc'[i] = "fail_event" /\ loc'[i].err \in CollaboratorErrors)
          => <<i, idx[i]>> \notin raised
    /\ BagCardinality(events') <= MaxEvents
    /\ UNCHANGED valVars

\* The check of the marker got an answer
CheckAnswered(i) == RetryStep(i) /\ pc[i] = "check" /\ pc'[i] # "crashed"

\* The platform reuses the slot of an invocation that has ended
RetryRecycle(i) ==
    /\ pc[i] \in {"returned", "crashed"}
    /\ pc' = [pc EXCEPT ![i] = "idle"]
    /\ kind' = [kind EXCEPT ![i] = "none"]
    /\ records' = [records EXCEPT ![i] = <<>>]
    /\ correlation_id' = [correlation_id EXCEPT ![i] = NoCorr]
    /\ idx' = [idx EXCEPT ![i] = 1]
    /\ results' = [results EXCEPT ![i] = <<>>]
    /\ loc' = [loc EXCEPT ![i] = NoLoc]
    /\ ret' = [ret EXCEPT ![i] = NoRet]
    /\ UNCHANGED <<s3, ddb, events, raised>>
    /\ UNCHANGED valVars

RetryNext == RetryDeliver \/ \E i \in Invs : RetryStep(i) \/ RetryRecycle(i)

\* The file is delivered as long as a handler is free, every invocation
\* runs on, and the marker check is answered in the end
SpecRetry ==
    /\ RetryInit /\ [][RetryNext]_vars
    /\ SF_vars(RetryDeliver)
    /\ \A i \in Invs :
          /\ WF_vars(RetryStep(i))
          /\ WF_vars(RetryRecycle(i))
          /\ SF_vars(CheckAnswered(i))

----------------------------------------------------------------------------
(* Properties of the idempotency gate *)

AnalyzerKeys == {ProcA, ProcB, ProcC}
IngestorKeys == {RawA, RawB, RawC}

MarkerOf(key) == <<BUCKET_NAME, MARKERS_PREFIX \o BUCKET_NAME \o <<"_", "_">>
                    \o Replace(key, <<"/">>, <<"_", "_">>) \o <<"_", "_", "null", ".done">>>>

Marked(store, key) == MarkerOf(key) \in DOMAIN store

Moved(i) == pc'[i] # pc[i] \/ idx'[i] # idx[i]

InTry(i) == kind[i] = "analyzer" /\ pc[i] \in {"read", "llm", "save", "upload", "mark"}

C2_MarkerImpliesPersisted ==
    /\ \A key \in AnalyzerKeys :
        Marked(s3, key)
        => /\ \E it \in ddb : it.source_file = key
           /\ <<BUCKET_NAME, AnalysisKey(key)>> \in DOMAIN s3
    /\ \A key \in IngestorKeys :
        Marked(s3, key)
        => /\ <<BUCKET_NAME, ManifestKey(key)>> \in DOMAIN s3
           /\ ValidRows(s3[<<BUCKET_NAME, key>>].rows) # <<>>
              => <<BUCKET_NAME, ProcessedKey(key)>> \in DOMAIN s3
           /\ RejectRows(s3[<<BUCKET_NAME, key>>].rows) # <<>>
              => <<BUCKET_NAME, RejectedKey(key)>> \in DOMAIN s3
    /\ \A i \in Invs :
        /\ (kind[i] = "analyzer" /\ pc[i] = "mark")
           => /\ <<i, idx[i]>> \notin raised
              /\ \E it \in ddb : it.source_file = CurKey(i)
              /\ <<BUCKET_NAME, AnalysisKey(CurKey(i))>> \in DOMAIN s3
        /\ (kind[i] = "ingestor" /\ pc[i] = "i_marker")
           => /\ <<i, idx[i]>> \notin raised
              /\ <<BUCKET_NAME, ManifestKey(CurKey(i))>> \in DOMAIN s3

\* C2 witness: the analyzer has written the marker of processed/a.csv, and
\* the record and the analysis object are there
C2_Witness ==
    /\ Marked(s3, ProcA)
    /\ \E it \in ddb : it.source_file = ProcA
    /\ <<BUCKET_NAME, AnalysisKey(ProcA)>> \in DOMAIN s3
    /\ \E i \in Invs : kind[i] = "analyzer" /\ pc[i] = "event"

\* C3: a unit whose step raises, or whose invocation crashes, before the
\* marker write leaves the marker as it was: the marker of an analyzer unit
\* appears only in the step that completes the marker write, after every
\* earlier step of that unit succeeded.  A delivery that finds the marker
\* absent enters the unit's processing instead of skipping it.
C3_FailureLeavesNoMarker ==
    [][/\ \A i \in Invs :
            (InTry(i) /\ pc'[i] \in {"fail_event", "crashed"})
            => (Marked(s3', CurKey(i)) <=> Marked(s3, CurKey(i)))
       /\ \A key \in AnalyzerKeys :
            (~Marked(s3, key) /\ Marked(s3', key))
            => \E i \in Invs : /\ kind[i] = "analyzer" /\ pc[i] = "mark"
                               /\ CurKey(i) = key /\ pc'[i] = "event"
                               /\ <<i, idx[i]>> \notin raised'
       /\ \A i \in Invs :
            (kind[i] = "analyzer" /\ pc[i] = "check" /\ Moved(i)
             /\ pc'[i] # "crashed" /\ ~Marked(s3, CurKey(i))
             /\ CurKey(i) \in AnalyzerKeys)
            => pc'[i] = "read"]_vars

\* C3 witness: one delivery of processed/a.csv failed after its record was
\* stored, the marker is absent, and another delivery of the same unit is
\* past the check, processing the unit again
C3_Witness ==
    \E i, j \in Invs :
        /\ i # j /\ kind[i] = "analyzer" /\ kind[j] = "analyzer"
        /\ pc[i] = "returned" /\ <<i, 1>> \in raised
        /\ records[i][1].key = ProcA /\ records[j][1].key = ProcA
        /\ \E it \in ddb : it.source_file = ProcA
        /\ ~Marked(s3, ProcA)
        /\ pc[j] = "llm"

\* C4: the gate is a plain existence check and reserves nothing: while one
\* invocation is between its check and its marker write, another invocation
\* standing at the check of the same unit with the marker still absent can
\* take the check and proceed to process the unit as well.
C4_CheckNotExclusive ==
    \A i, j \in Invs :
        (/\ i # j /\ InTry(i)
         /\ kind[j] = "analyzer" /\ pc[j] = "check"
         /\ CurKey(j) = CurKey(i) /\ CurKey(j) \in AnalyzerKeys
         /\ ~Marked(s3, CurKey(j)))
        => ENABLED (AnalyzerCheck(j) /\ pc'[j] = "read")

\* C4 witness: two invocations of the analyzer both passed the check of
\* processed/a.csv and both stored a record; each is about to write the marker
C4_Witness ==
    \E i, j \in Invs :
        /\ i # j /\ kind[i] = "analyzer" /\ kind[j] = "analyzer"
        /\ pc[i] = "mark" /\ pc[j] = "mark"
        /\ CurKey(i) = ProcA /\ CurKey(j) = ProcA
        /\ ~Marked(s3, ProcA)
        /\ Cardinality({it \in ddb : it.source_file = ProcA}) = 2

\* C5: nothing is rolled back and every completed structured-store write
\* adds a record of its own: a step never removes or replaces a stored
\* record, a successful save step adds exactly one, and the step in which a
\* unit fails leaves the records it has already stored.
C5_SavedRecordsStay ==
    [][/\ ddb \subseteq ddb'
       /\ \A i \in Invs :
            (kind[i] = "analyzer" /\ pc[i] = "save" /\ pc'[i] = "upload")
            => /\ Cardinality(ddb') = Cardinality(ddb) + 1
               /\ \E it \in ddb' \ ddb : it.source_file = CurKey(i)
       /\ \A i \in Invs :
            (InTry(i) /\ pc'[i] \in {"fail_event", "crashed"}) => ddb' = ddb]_vars

\* C5 witness: a delivery of processed/a.csv failed after its record was
\* stored and before the marker write, a redelivery succeeded, and the
\* structured store holds two records of the one unit
C5_Witness ==
    \E i, j \in Invs :
        /\ i # j /\ kind[i] = "analyzer" /\ kind[j] = "analyzer"
        /\ pc[i] = "returned" /\ pc[j] = "returned"
        /\ Len(results[i]) = 1 /\ Len(results[j]) = 1
        /\ results[i][1].status = "failed"
        /\ results[i][1].error = "put_object failed"
        /\ results[j][1].status = "success"
        /\ results[i][1].correlation_id = results[j][1].correlation_id
        /\ \E a, b \in ddb :
              /\ a # b /\ a.source_file = ProcA /\ b.source_file = ProcA
              /\ a.correlation_id = b.correlation_id
              /\ a.analysis_id # b.analysis_id
        /\ Cardinality(ddb) = 2

----------------------------------------------------------------------------
(* Properties of one analyzer invocation over a batch *)

UnitCorrId(k) ==
    IF correlation_id[1] # NoCorr
    THEN correlation_id[1]
    ELSE DefaultCorrId(records[1][k].bucket, records[1][k].key, <<"null">>)

\* What unit k of the batch comes to when none of its own steps raises
UnitOutcome(k) ==
    IF ~StartsWith(records[1][k].key, PROCESSED_PREFIX)
    THEN "skipped"
    ELSE IF \E h \in 1..(k - 1) :
              records[1][h] = records[1][k] /\ <<1, h>> \notin raised
    THEN "skipped"
    ELSE "success"

FailedEventOf(e, k) ==
    /\ e.detail_type = "Data Analysis Failed"
    /\ e.detail.correlation_id = UnitCorrId(k)
    /\ e.detail.source_key = records[1][k].key

\* C6: the analyzer's answer to a batch of n units lists n entries in input
\* order; a unit is failed exactly when one of its steps raised, every other
\* unit has the outcome of its own processing, and a 'Data Analysis Failed'
\* event is on the bus for each failed unit and for no other.
C6_BatchIsolation ==
    (pc[1] = "returned" /\ ret[1].status = "ok")
    => LET res == ret[1].results
       IN  /\ Len(res) = Len(records[1])
           /\ \A k \in 1..Len(res) :
                /\ res[k].correlation_id = UnitCorrId(k)
                /\ (res[k].status = "failed") <=> (<<1, k>> \in raised)
                /\ <<1, k>> \notin raised => res[k].status = UnitOutcome(k)
                /\ <<1, k>> \in raised
                   => \E e \in BagToSet(events) : FailedEventOf(e, k)
           /\ \A e \in BagToSet(events) :
                e.detail_type = "Data Analysis Failed"
                => \E k \in 1..Len(res) : <<1, k>> \in raised /\ FailedEventOf(e, k)

\* C7: a unit does not fail for a summarizer text that is not a JSON
\* document: the handler never stands in the except clause with the
\* parser's error.
C7_ParseFailureDegrades ==
    \A i \in Invs : pc[i] = "fail_event" => loc[i].err # "JSONDecodeError"

----------------------------------------------------------------------------
(* validate_row applied to one row drawn from the cells below *)

StrCells == {Absent, Empty, Text}
HrCells == {Absent, Text, IntCell(49), DecCell(499), IntCell(50), IntCell(180),
            DecCell(1805), IntCell(181)}
SpCells == {Absent, Text, IntCell(89), IntCell(90), IntCell(100), IntCell(101)}
StCells == {Absent, Text, IntCell(-1), DecCell(-5), IntCell(0), IntCell(50000),
            IntCell(50001)}
TempCells == {Absent, Text, DecCell(349), DecCell(350), DecCell(400), DecCell(401)}
SbpCells == {Absent, Text, IntCell(89), IntCell(90), IntCell(100), DecCell(1005),
             IntCell(180), DecCell(1805)}
DbpCells == {Absent, Empty, Text, IntCell(59), IntCell(60), IntCell(100), IntCell(105),
             DecCell(1009), IntCell(120), DecCell(1205), IntCell(121)}

RowInputs ==
    [event_time : StrCells, user_id : StrCells, heart_rate : HrCells,
     spo2 : SpCells, steps : StCells, temp_c : TempCells,
     systolic_bp : SbpCells, diastolic_bp : DbpCells]

ValInit ==
    /\ PipeInit
    /\ s3 = RawStore
    /\ vrow \in RowInputs
    /\ vres = <<FALSE, "pending">>
    /\ vdone = FALSE

ValidateRow ==
    /\ ~vdone
    /\ vres' = validate_row(vrow)
    /\ vdone' = TRUE
    /\ UNCHANGED vrow
    /\ UNCHANGED pipeVars

ValNext == ValidateRow

SpecValidate == ValInit /\ [][ValNext]_vars

----------------------------------------------------------------------------
(* Properties of validate_row *)

SchemaOrder ==
    <<"event_time", "user_id", "heart_rate", "spo2", "steps",
      "temp_c", "systolic_bp", "diastolic_bp">>

NumericFields == {"heart_rate", "spo2", "steps", "temp_c", "systolic_bp", "diastolic_bp"}

IsAbsent(cell) == cell.k = "absent"
IsBlank(cell) == cell.k \in {"absent", "empty"}

AllPresent(row) == \A n \in 1..Len(SchemaOrder) : ~IsBlank(row[SchemaOrder[n]])
AllNumeric(row) == \A f \in NumericFields : row[f].k = "num"

\* The value written in a cell, in tenths, against inclusive bounds in units
Within(cell, lo, hi) == 10 * lo <= cell.v /\ cell.v <= 10 * hi

AllWithin(row) ==
    /\ Within(row["heart_rate"], 50, 180)
    /\ Within(row["spo2"], 90, 100)
    /\ Within(row["steps"], 0, 50000)
    /\ Within(row["temp_c"], 35, 40)
    /\ Within(row["systolic_bp"], 90, 180)
    /\ Within(row["diastolic_bp"], 60, 120)

\* C8, as amended: a row in which a required field is absent or empty is
\* rejected with missing_<f>, f the first absent or empty field in the order
\* event_time, user_id, heart_rate, spo2, steps, temp_c, systolic_bp,
\* diastolic_bp, whatever the other fields hold.
C8_FirstMissingField ==
    vdone => \A n \in 1..Len(SchemaOrder) :
                (/\ IsBlank(vrow[SchemaOrder[n]])
                 /\ \A m \in 1..(n - 1) : ~IsBlank(vrow[SchemaOrder[m]]))
                => vres = <<FALSE, "missing_" \o SchemaOrder[n]>>

\* C8, as stated: the reason names the first absent field, an empty field
\* counting as present.
C8_FirstAbsentField ==
    vdone => \A n \in 1..Len(SchemaOrder) :
                (/\ IsAbsent(vrow[SchemaOrder[n]])
                 /\ \A m \in 1..(n - 1) : ~IsAbsent(vrow[SchemaOrder[m]]))
                => vres = <<FALSE, "missing_" \o SchemaOrder[n]>>

\* C8 witness: heart_rate is the first missing field of a row that also has
\* an out-of-range spo2 and an unparseable steps, and heart_rate is reported
C8_Witness ==
    /\ vdone
    /\ vrow["event_time"] = Text /\ vrow["user_id"] = Text
    /\ vrow["heart_rate"] = Absent
    /\ vrow["spo2"] = IntCell(89)
    /\ vrow["steps"] = Text
    /\ vrow["diastolic_bp"] = Empty
    /\ vres = <<FALSE, "missing_heart_rate">>

\* C9: a row with every field present and every numeric field a number is
\* accepted exactly when each value lies in its inclusive range and
\* diastolic_bp <= systolic_bp; heart_rate 50 and 180 pass, 49 and 181 are
\* rejected with invalid_heart_rate.
C9_OkExactlyInRange ==
    (vdone /\ AllPresent(vrow) /\ AllNumeric(vrow))
    => /\ (vres = <<TRUE, "ok">>)
          <=> (AllWithin(vrow) /\ vrow["diastolic_bp"].v <= vrow["systolic_bp"].v)
       /\ vrow["heart_rate"] \in {IntCell(49), IntCell(181)}
          => vres = <<FALSE, "invalid_heart_rate">>

\* C10: dbp_gt_sbp is the reason exactly for the rows with every field
\* present, every numeric field a number within its range, and
\* diastolic_bp > systolic_bp; it is never the reason when systolic_bp or
\* diastolic_bp fails its own parse or range check.
C10_DbpGtSbpExactly ==
    vdone
    => ((vres = <<FALSE, "dbp_gt_sbp">>)
        <=> (/\ AllPresent(vrow) /\ AllNumeric(vrow) /\ AllWithin(vrow)
             /\ vrow["diastolic_bp"].v > vrow["systolic_bp"].v))

NumericOrder ==
    <<"heart_rate", "spo2", "steps", "temp_c", "systolic_bp", "diastolic_bp">>

RangeOf(f) ==
    CASE f = "heart_rate" -> <<50, 180>>
      [] f = "spo2" -> <<90, 100>>
      [] f = "steps" -> <<0, 50000>>
      [] f = "temp_c" -> <<35, 40>>
      [] f = "systolic_bp" -> <<90, 180>>
      [] f = "diastolic_bp" -> <<60, 120>>

Unparseable(cell) == cell.k = "text"

\* The written value is a number inside the field's inclusive range
PassesCheck(cell, f) == cell.k = "num" /\ Within(cell, RangeOf(f)[1], RangeOf(f)[2])

\* The field fails whatever the reading of a decimal: it is no number, or a
\* number whose integer part is outside the range (temp_c: the number itself)
FailsCheck(cell, f) ==
    \/ Unparseable(cell)
    \/ /\ cell.k = "num"
       /\ IF f = "temp_c"
          THEN ~Within(cell, RangeOf(f)[1], RangeOf(f)[2])
          ELSE \/ cell.v < 10 * RangeOf(f)[1] /\ cell.v >= 0
               \/ cell.v <= -10
               \/ cell.v >= 10 * (RangeOf(f)[2] + 1)

\* C11, as amended: the checks run as presence of all 8 fields in schema
\* order, then for each numeric field in the fixed order its parse check
\* and its range check together, then the cross-field check; the reason is
\* that of the first failing check.  A row whose first failing numeric field
\* is f (every earlier numeric field a number in range) is rejected with
\* invalid_<f>, be the failure one of parse or of range and whatever the
\* later fields hold; no invalid_ reason is given while a field is missing,
\* and dbp_gt_sbp is given only when no numeric field fails.
C11_FirstFailingFieldWins ==
    vdone =>
      /\ ~AllPresent(vrow) => vres[2] \notin {"invalid_" \o NumericOrder[n] : n \in 1..6}
      /\ AllPresent(vrow) =>
           \A n \in 1..Len(NumericOrder) :
              (/\ FailsCheck(vrow[NumericOrder[n]], NumericOrder[n])
               /\ \A m \in 1..(n - 1) : PassesCheck(vrow[NumericOrder[m]], NumericOrder[m]))
              => vres = <<FALSE, "invalid_" \o NumericOrder[n]>>
      /\ vres[2] = "dbp_gt_sbp" =>
           \A n \in 1..Len(NumericOrder) : ~FailsCheck(vrow[NumericOrder[n]], NumericOrder[n])

\* C11, as stated: the parse check of every numeric field comes before any
\* range check, so a row with all fields present and an unparseable numeric
\* field is rejected with invalid_<f>, f the first unparseable field.
C11_ParseStageBeforeRange ==
    (vdone /\ AllPresent(vrow)) =>
        \A n \in 1..Len(NumericOrder) :
           (/\ Unparseable(vrow[NumericOrder[n]])
            /\ \A m \in 1..(n - 1) : ~Unparseable(vrow[NumericOrder[m]]))
           => vres = <<FALSE, "invalid_" \o NumericOrder[n]>>

\* C11 witness: heart_rate 181 is out of range, the later spo2 is
\* unparseable, and the reason is the one of heart_rate
C11_Witness ==
    /\ vdone /\ AllPresent(vrow)
    /\ vrow["heart_rate"] = IntCell(181)
    /\ vrow["spo2"] = Text
    /\ vres = <<FALSE, "invalid_heart_rate">>

ReasonCodes ==
    {"ok", "dbp_gt_sbp"}
    \cup {"missing_" \o SchemaOrder[n] : n \in 1..Len(SchemaOrder)}
    \cup {"invalid_" \o NumericOrder[n] : n \in 1..Len(NumericOrder)}

\* C12: for every row of raw values (absent, empty, text, integer or
\* decimal numbers in or out of range) validate_row returns a pair
\* (accepted, reason) with the reason one of ok, missing_<field>,
\* invalid_<field>, dbp_gt_sbp, accepted exactly with ok; a row with every
\* field present and an unparseable numeric field is rejected with an
\* invalid_<field> reason, that of the unparseable field or of a numeric
\* field checked before it.
C12_AlwaysReturnsReason ==
    vdone =>
      /\ vres[1] \in BOOLEAN
      /\ vres[2] \in ReasonCodes
      /\ vres[1] <=> (vres[2] = "ok")
      /\ AllPresent(vrow) =>
           \A n \in 1..Len(NumericOrder) :
              Unparseable(vrow[NumericOrder[n]])
              => \E m \in 1..n : vres = <<FALSE, "invalid_" \o NumericOrder[m]>>

\* C12 witness: steps holds text in a row whose other fields pass, one of
\* them written as a decimal, and invalid_steps is returned
C12_Witness ==
    /\ vdone /\ AllPresent(vrow)
    /\ vrow["heart_rate"] = IntCell(50)
    /\ vrow["steps"] = Text
    /\ vrow["systolic_bp"] = DecCell(1005)
    /\ vres = <<FALSE, "invalid_steps">>

----------------------------------------------------------------------------
(* Properties of the ingestor's partition *)

Accepted(row) == validate_row(row)[1]
Rejected(row) == ~validate_row(row)[1]

\* A rejected row without its reject_reason
Original(r) == [f \in DOMAIN r \ {"reject_reason"} |-> r[f]]

InputRows == s3[<<BUCKET_NAME, RawA>>].rows

\* C13: once one ingestion has partitioned the rows of its file, the valid
\* set is the accepted rows in input order, the rejected set is the other
\* rows in input order, each with all its fields and with reject_reason the
\* reason validate_row returns for it, so every row is in exactly one set;
\* and the manifest counts are input = valid + rejected = number of rows.
C13_PartitionComplete ==
    /\ (kind[1] = "ingestor"
        /\ pc[1] \in {"i_processed", "i_rejected", "i_manifest", "i_marker"})
       => LET valid_rows == loc[1].valid_rows
              reject_rows == loc[1].reject_rows
          IN  /\ valid_rows = SelectSeq(InputRows, Accepted)
              /\ [k \in 1..Len(reject_rows) |-> Original(reject_rows[k])]
                    = SelectSeq(InputRows, Rejected)
              /\ \A k \in 1..Len(reject_rows) :
                    /\ DOMAIN reject_rows[k]
                          = DOMAIN Original(reject_rows[k]) \cup {"reject_reason"}
                    /\ reject_rows[k]["reject_reason"]
                          = validate_row(Original(reject_rows[k]))[2]
              /\ Len(valid_rows) + Len(reject_rows) = Len(InputRows)
    /\ <<BUCKET_NAME, ManifestKey(RawA)>> \in DOMAIN s3
       => LET counts == s3[<<BUCKET_NAME, ManifestKey(RawA)>>].counts
          IN  /\ counts.input = Len(InputRows)
              /\ counts.valid = Len(SelectSeq(InputRows, Accepted))
              /\ counts.rejected = Len(SelectSeq(InputRows, Rejected))
              /\ counts.input = counts.valid + counts.rejected

\* C13 witness: a file of three rows, the first and the last rejected for
\* different reasons and the middle one accepted; the manifest is written
C13_Witness ==
    /\ InputRows = <<RowBad, RowOK, RowMissing>>
    /\ kind[1] = "ingestor" /\ pc[1] = "i_marker"
    /\ loc[1].valid_rows = <<RowOK>>
    /\ Len(loc[1].reject_rows) = 2
    /\ loc[1].reject_rows[1]["reject_reason"] = "invalid_heart_rate"
    /\ loc[1].reject_rows[2]["reject_reason"] = "missing_spo2"
    /\ s3[<<BUCKET_NAME, ManifestKey(RawA)>>].counts
          = [input |-> 3, valid |-> 1, rejected |-> 2]

----------------------------------------------------------------------------
(* Properties of detect_anomalies *)

AnalysisRows == s3[<<BUCKET_NAME, ProcA>>].rows

\* The labels a row triggers by the values written in it (tenths)
TriggeredLabels(row) ==
    (IF row["heart_rate"].v < 600 \/ row["heart_rate"].v > 1600
     THEN <<"Abnormal heart rate">> ELSE <<>>)
    \o (IF row["spo2"].v < 920 THEN <<"Low SpO2">> ELSE <<>>)
    \o (IF row["temp_c"].v > 380 THEN <<"High temperature">> ELSE <<>>)
    \o (IF row["systolic_bp"].v > 1400 \/ row["diastolic_bp"].v > 900
        THEN <<"High blood pressure">> ELSE <<>>)

Triggers(row) == TriggeredLabels(row) # <<>>

RECURSIVE CommaJoined(_)
CommaJoined(labels) ==
    IF labels = <<>> THEN ""
    ELSE IF Len(labels) = 1 THEN labels[1]
    ELSE labels[1] \o ", " \o CommaJoined(Tail(labels))

\* The handler is past detect_anomalies, or in the except clause for
\* something other than the failed read of the file
DetectRan ==
    /\ kind[1] = "analyzer"
    /\ \/ pc[1] \in {"llm", "save", "upload", "mark", "event"}
       \/ pc[1] = "fail_event" /\ loc[1].err # "get_object failed"

\* C14: for the rows of a validated file detect_anomalies reports, row by
\* row, exactly the labels whose strict threshold the row crosses (heart
\* rate < 60 or > 160, spo2 < 92, temp_c > 38.0, systolic > 140 or
\* diastolic > 90), joined by ", " in that order, and nothing for a row that
\* crosses none.
C14_ThresholdRules ==
    DetectRan
    => LET expected == SelectSeq(AnalysisRows, Triggers)
       IN  [k \in 1..Len(loc[1].anomalies) |-> loc[1].anomalies[k].anomaly]
             = [k \in 1..Len(expected) |-> CommaJoined(TriggeredLabels(expected[k]))]

\* A finding is the finding of a row: it carries the row's readings
FindingOf(finding, row) ==
    /\ finding.heart_rate * 10 = row["heart_rate"].v
    /\ finding.spo2 * 10 = row["spo2"].v
    /\ finding.temp_c = row["temp_c"].v
    /\ finding.systolic_bp * 10 = row["systolic_bp"].v
    /\ finding.diastolic_bp * 10 = row["diastolic_bp"].v

\* C15: what detect_anomalies returns holds at most one finding per input
\* row, none for a row that triggers no rule, and the findings in the order
\* of their rows: the findings map to rows at strictly increasing positions,
\* each a row that triggers a rule, so there are no more findings than rows.
C15_SparseOrdered ==
    (kind[1] = "analyzer" /\ pc[1] \in {"llm", "save", "upload", "mark", "event"})
    => LET out == loc[1].anomalies
           rows == AnalysisRows
       IN  /\ Len(out) <= Len(rows)
           /\ \E at \in [1..Len(out) -> 1..Len(rows)] :
                /\ \A k \in 1..Len(out) :
                      /\ FindingOf(out[k], rows[at[k]])
                      /\ Triggers(rows[at[k]])
                /\ \A k \in 1..(Len(out) - 1) : at[k] < at[k + 1]
           /\ (\A k \in 1..Len(rows) : ~Triggers(rows[k])) => out = <<>>

\* C15 witness: of three rows the first and the last trigger a rule and the
\* middle one (75, 98, 36.5, 120, 80) none; two findings, in that order
C15_Witness ==
    /\ kind[1] = "analyzer" /\ pc[1] = "llm"
    /\ AnalysisRows = <<RowFast, RowOK, RowLowSpo2>>
    /\ Len(loc[1].anomalies) = 2
    /\ loc[1].anomalies[1].anomaly = "Abnormal heart rate"
    /\ loc[1].anomalies[2].anomaly = "Low SpO2"

----------------------------------------------------------------------------
(* Properties of failure reporting, markers and correlation ids *)

CorrIdOfUnit(i, k) ==
    IF correlation_id[i] # NoCorr
    THEN correlation_id[i]
    ELSE DefaultCorrId(records[i][k].bucket, records[i][k].key, <<"null">>)

\* C16: when a handler has returned, every unit of it in which a step
\* raised has a failure event on the bus with the unit's correlation id
\* and, for the analyzer, the error text of the unit's result entry; this
\* for the ingestor's units as for the analyzer's.
C16_FailureEventPublished ==
    \A i \in Invs :
        pc[i] = "returned"
        => \A k \in 1..Len(records[i]) :
              <<i, k>> \in raised
              => \E e \in BagToSet(events) :
                    /\ e.detail.status = "failed"
                    /\ e.detail.correlation_id = CorrIdOfUnit(i, k)
                    /\ kind[i] = "analyzer" => e.detail.error = results[i][k].error

MarkerObjects(store) == {k \in DOMAIN store : StartsWith(k[2], MARKERS_PREFIX)}

ManifestCorrId(key) == s3[<<BUCKET_NAME, ManifestKey(key)>>].correlation_id

\* C18: the correlation id of every stored analysis record, and of every
\* 'Data Analysis Complete' event, is the one in the manifest the ingestor
\* wrote for the record's source file, whatever the shape of the event that
\* started the analysis.
C18_CorrelationIdMatchesManifest ==
    /\ \A it \in ddb : it.correlation_id = ManifestCorrId(it.source_file)
    /\ \A e \in BagToSet(events) :
          e.detail_type = "Data Analysis Complete"
          => e.detail.correlation_id = ManifestCorrId(e.detail.source_key)

\* The replies that are the expected JSON object, fenced or not
JsonReplies == {t \in OutputTexts : t.json}

Unfenced(t) == [t EXCEPT !.fence = "none"]

\* C19: for the rows a handler holds at the summarizer call, every reply
\* that is the expected JSON object inside code fences, with or without the
\* json tag, is parsed and gives the insights, recommendations and summary
\* of the same reply without fences.
C19_FencedReplyUnwrapped ==
    \A i \in Invs :
        (kind[i] = "analyzer" /\ pc[i] = "llm" /\ calculate_statistics_ok(loc[i].rows))
        => \A t \in JsonReplies :
              /\ analyze_with_llm(loc[i].rows, t).ok
              /\ analyze_with_llm(loc[i].rows, t).val
                    = analyze_with_llm(loc[i].rows, Unfenced(t)).val

----------------------------------------------------------------------------
(* Properties of the notifier's aggregation *)

\* The sequence without the later occurrences of its elements
RECURSIVE Dedup(_)
Dedup(s) ==
    IF s = <<>> THEN <<>>
    ELSE LET front == Dedup(SubSeq(s, 1, Len(s) - 1))
         IN  IF s[Len(s)] \in Range(front) THEN front ELSE Append(front, s[Len(s)])

RECURSIVE UnionOf(_, _)
UnionOf(items, field) ==
    IF items = <<>> THEN <<>>
    ELSE Get(items[1], field, <<>>) \o UnionOf(Tail(items), field)

\* The notifier invocations that have built their report
Reported(i) ==
    /\ kind[i] = "notifier"
    /\ pc[i] \in {"send", "sleep", "update", "returned"}
    /\ "insights" \in DOMAIN loc[i]

\* C20: the report of an invocation that selected several records lists as
\* insights and as recommendations the deduplicated union, in order, of the
\* lists of all selected records; with one record in scope it lists that
\* record's own.
C20_UnionOfSelectedRecords ==
    \A i \in Invs :
        Reported(i)
        => IF Len(loc[i].items) > 1
           THEN /\ loc[i].insights = Dedup(UnionOf(loc[i].items, "insights"))
                /\ loc[i].recommendations
                      = Dedup(UnionOf(loc[i].items, "recommendations"))
           ELSE /\ loc[i].insights = Get(loc[i].items[1], "insights", <<>>)
                /\ loc[i].recommendations
                      = Get(loc[i].items[1], "recommendations", <<>>)

Sentinels == {"No major trends observed", "No recommendations", "Analysis completed."}

\* C21: no report lists a placeholder text among its insights or its
\* recommendations, or has one as its executive summary.
C21_SentinelsAbsent ==
    \A i \in Invs :
        Reported(i)
        => /\ Range(loc[i].insights) \cap Sentinels = {}
           /\ Range(loc[i].recommendations) \cap Sentinels = {}
           /\ \A t \in Sentinels : loc[i].executive_summary # <<t>>

\* The summary shapes the contract names: a text, a map whose health_status
\* is a text, or no summary
NamedShape(item) ==
    \/ "summary" \notin DOMAIN item
    \/ IsStr(item.summary)
    \/ /\ IsDict(item.summary)
       /\ IsStr(Get(item.summary.M, "health_status", Str(<<>>)))

\* Nothing to report: no summary, or a text that is empty
NoSummary(item) ==
    \/ "summary" \notin DOMAIN item
    \/ IsStr(item.summary) /\ item.summary.S = <<>>

Formatted == pc[1] = "formatted"

SelectedLabels(i) ==
    AllLabels(loc[i].items)

Occurrences(labels, l) == Cardinality({k \in 1..Len(labels) : labels[k] = l})

FirstSeenAt(labels, l) ==
    CHOOSE k \in 1..Len(labels) :
        labels[k] = l /\ \A h \in 1..(k - 1) : labels[h] # l

\* C23: the frequency table of a report has one row per label found in the
\* selected records, with the number of its occurrences; rows come by
\* descending count and, at equal count, in the order the labels were first
\* seen; the counts add up to the report's total of anomalies.
C23_FrequencyTable ==
    \A i \in Invs :
        Reported(i)
        => LET table == loc[i].sorted_anomalies
               labels == SelectedLabels(i)
           IN  /\ {table[k][1] : k \in 1..Len(table)} = Range(labels)
               /\ Len(table) = Cardinality(Range(labels))
               /\ \A k \in 1..Len(table) :
                     table[k][2] = Occurrences(labels, table[k][1])
               /\ \A j, k \in 1..Len(table) :
                     j < k => \/ table[j][2] > table[k][2]
                              \/ /\ table[j][2] = table[k][2]
                                 /\ FirstSeenAt(labels, table[j][1])
                                       < FirstSeenAt(labels, table[k][1])
               /\ SumSeq([k \in 1..Len(table) |-> table[k][2]]) = loc[i].total_anomalies

\* Labels A, B, A, C, B, A over three records give A:3, B:2, C:1
C23_Witness ==
    \E i \in Invs :
        /\ Reported(i)
        /\ SelectedLabels(i) = <<"Abnormal heart rate", "Fever", "Abnormal heart rate",
                                 "Low SpO2", "Fever", "Abnormal heart rate">>
        /\ loc[i].sorted_anomalies
              = <<<<"Abnormal heart rate", 3>>, <<"Fever", 2>>, <<"Low SpO2", 1>>>>

\* Two labels of equal count, the later-counted one seen first
C23_TieWitness ==
    \E i \in Invs :
        /\ Reported(i)
        /\ loc[i].sorted_anomalies = <<<<"Fever", 2>>, <<"Abnormal heart rate", 2>>>>

RecordsAnalyzedOf(item) ==
    IF "records_analyzed" \in DOMAIN item THEN item.records_analyzed ELSE 0

AnomalyCountOf(item) ==
    IF "anomalies" \in DOMAIN item THEN Len(item.anomalies) ELSE 0

\* values[1] + ... + values[n]
RECURSIVE SumTo(_, _)
SumTo(values, n) == IF n = 0 THEN 0 ELSE values[n] + SumTo(values, n - 1)

\* C24: the report's total of records analyzed is the sum of records_analyzed
\* over the selected records, and its total of anomalies the sum of the
\* lengths of their anomalies lists; a record without the field counts 0.
C24_Totals ==
    \A i \in Invs :
        Reported(i)
        => /\ loc[i].total_analyzed_rows
                 = SumTo([k \in 1..Len(loc[i].items) |->
                             RecordsAnalyzedOf(loc[i].items[k])], Len(loc[i].items))
           /\ loc[i].total_anomalies
                 = SumTo([k \in 1..Len(loc[i].items) |->
                             AnomalyCountOf(loc[i].items[k])], Len(loc[i].items))
           /\ pc[i] = "returned"
                 => /\ ret[i].total_analyzed_rows = loc[i].total_analyzed_rows
                    /\ ret[i].total_anomalies = loc[i].total_anomalies

\* Three records in scope, the newest of them without either field
C24_Witness ==
    \E i \in Invs :
        /\ Reported(i) /\ pc[i] = "returned"
        /\ loc[i].items = <<RecBare6, RecS5, RecU4>>
        /\ ret[i].total_analyzed_rows = 4
        /\ ret[i].total_anomalies = 4

----------------------------------------------------------------------------
(* Properties of send_email *)

Backoff == <<2, 4>>

\* send_email of invocation i returned False
SendFailed(i) ==
    Reported(i) /\ pc[i] \in {"update", "returned"} /\ ~loc[i].email_sent

\* send_email of invocation i returned True
SendSucceeded(i) ==
    Reported(i) /\ pc[i] \in {"update", "returned"} /\ loc[i].email_sent

SendAttempts ==
    \A i \in Invs :
        Reported(i)
        => /\ loc[i].attempts <= 3
           /\ pc[i] = "send" => loc[i].attempts < 3 /\ loc[i].waits = SubSeq(Backoff, 1, loc[i].attempts)
           /\ pc[i] = "sleep" => loc[i].attempts < 3 /\ loc[i].waits = SubSeq(Backoff, 1, loc[i].attempts - 1)
           /\ SendSucceeded(i)
                 => /\ loc[i].attempts >= 1
                    /\ loc[i].waits = SubSeq(Backoff, 1, loc[i].attempts - 1)
           /\ SendFailed(i) => loc[i].attempts = 3 /\ loc[i].waits = Backoff

\* C25: send_email makes at most 3 attempts; it stops at the first that
\* succeeds and returns True; it returns False only after 3 failed attempts;
\* it waits 2 seconds after the first failure and 4 after the second, and
\* not after the last; and once called it returns.
C25_SendEmailRetries ==
    /\ []SendAttempts
    /\ \A i \in Invs : (pc[i] = "send") ~> (SendSucceeded(i) \/ SendFailed(i))

\* Two failures, the waits of 2 and 4 seconds, then the attempt that succeeds
C25_Witness ==
    \E i \in Invs :
        /\ SendSucceeded(i)
        /\ loc[i].attempts = 3
        /\ loc[i].waits = <<2, 4>>

----------------------------------------------------------------------------
(* Properties of the analysis records *)

SameRecord(a, b) ==
    a.correlation_id = b.correlation_id /\ a.analysis_id = b.analysis_id

NotificationFields == {"notification_sent", "notification_timestamp"}

\* b is a with nothing but its notification fields changed
OnlyNotified(a, b) ==
    /\ DOMAIN b = DOMAIN a
    /\ \A f \in DOMAIN a \ NotificationFields : b[f] = a[f]

\* One step on the table: a record that appears is unnotified; a record that
\* was there stays, and stays as it was unless the step is the notifier's
\* update after an email that went out and that covers the record, which
\* changes the notification fields only
RecordFrame ==
    /\ \A new \in ddb' :
          (\A it \in ddb : ~SameRecord(it, new))
          => new.notification_sent = FALSE /\ new.notification_timestamp = "None"
    /\ \A it \in ddb :
          \/ it \in ddb'
          \/ /\ \E new \in ddb' : SameRecord(it, new) /\ OnlyNotified(it, new)
             /\ \E i \in Invs :
                   /\ kind[i] = "notifier" /\ pc[i] = "update" /\ pc'[i] = "returned"
                   /\ loc[i].email_sent
                   /\ \E k \in 1..Len(loc[i].items) : SameRecord(it, loc[i].items[k])

\* C26: a record is created unnotified; later only the notifier changes it,
\* only its two notification fields, and only after the email covering it
\* went out; when send_email fails no record changes, and the analyzer
\* changes no record that exists.
C26_RecordFrame == [][RecordFrame]_vars

\* The analyzer has written a second record for the unit and the notifier,
\* its email sent, has flagged the record it reported
C26_Witness ==
    /\ Cardinality(ddb) = 2
    /\ \E it \in ddb : it.notification_sent = TRUE
    /\ \E it \in ddb : it.notification_sent = FALSE
    /\ pc[2] = "returned" /\ ret[2].status = "success"

----------------------------------------------------------------------------
(* Properties of the handlers' entry *)

\* An event that is neither a Records list nor a bucket with a key
Unrecognized(event) ==
    /\ "Records" \notin DOMAIN event
    /\ ~("bucket" \in DOMAIN event /\ "key" \in DOMAIN event)

\* C27: a handler, ingestor or analyzer, started on an unrecognized event
\* returns status failed with reason invalid_event_format at once, the object
\* store, the record table and the event bus left as they were.
C27_UnrecognizedEventFails ==
    [][\A event \in EntryEvents, lambda \in {"ingestor", "analyzer"} :
        (Unrecognized(event) /\ Start(1, lambda, EntryOf(lambda, event)))
        => /\ pc'[1] = "returned"
           /\ ret'[1] = [status |-> "failed", reason |-> "invalid_event_format"]
           /\ s3' = s3 /\ ddb' = ddb /\ events' = events]_vars

\* The handler of invocation i ended with an error it did not catch
Aborted(i) == pc[i] = "crashed" /\ ret[i].status = "raised"

\* The analyzer read the records of its event
BatchStarted(i) == kind[i] = "analyzer" /\ records[i] # <<>>

\* C28: an analyzer that began a batch is not ended by a fault of one of its
\* units: it goes through its records, each unit it has finished having one
\* entry, success, skipped or failed, in the result list, and it returns a
\* result list with one entry per record.
C28_UnitFaultsContained ==
    \A i \in Invs :
        BatchStarted(i)
        => /\ ~Aborted(i)
           /\ \A k \in 1..Len(results[i]) :
                 results[i][k].status \in {"success", "skipped", "failed"}
           /\ pc[i] \in {"check", "read", "llm", "save", "upload", "mark", "event",
                         "fail_event"}
                 => Len(results[i]) = idx[i] - 1
           /\ pc[i] = "returned"
                 => /\ ret[i].status = "ok"
                    /\ Len(ret[i].results) = Len(records[i])

----------------------------------------------------------------------------
(* Properties of the completion event *)

\* Every invocation that has started takes its next step, which may be the
\* step at which it is ended from outside, and every delivery the platform
\* can make is made while a handler slot is free
SpecLive == Spec /\ WF_vars(Next)

\* A completion event for the unit of source key `key` is on the bus
CompletePublished(key) ==
    \E e \in BagToSet(events) :
        /\ e.detail_type = "Data Analysis Complete"
        /\ e.detail.source_key = key

\* C29: from every state in which the analyzer marker of a unit is written,
\* a state follows in which a "Data Analysis Complete" event of that unit is
\* on the bus, whether or not a publish call failed or an invocation was
\* ended between the marker write and the publish.
C29_MarkedUnitPublished ==
    \A key \in AnalyzerKeys : Marked(s3, key) ~> CompletePublished(key)

CompleteEvents == {e \in BagToSet(events) : e.detail_type = "Data Analysis Complete"}

\* The table holds a record with this correlation id and these counts
HasRecord(corr_id, row_count, anomaly_count) ==
    \E item \in ddb :
        /\ item.correlation_id = corr_id
        /\ item.records_analyzed = row_count
        /\ Len(item.anomalies) = anomaly_count

\* The analysis object under this key carries this correlation id and
\* these counts
HasBlob(analysis_key, corr_id, row_count, anomaly_count) ==
    /\ <<BUCKET_NAME, analysis_key>> \in DOMAIN s3
    /\ LET body == s3[<<BUCKET_NAME, analysis_key>>]
       IN  /\ body.correlation_id = corr_id
           /\ body.records_analyzed = row_count
           /\ Len(body.anomalies) = anomaly_count

\* C30: in every state, each "Data Analysis Complete" event on the bus has
\* its unit's marker written and a record of its correlation id in the
\* table, so that the notifier's query for that id returns a record; and
\* the record, the analysis object, the event and the result entry of a
\* successful unit carry the same correlation id, row count and anomaly
\* count.
C30_CompleteEventBacked ==
    /\ \A e \in CompleteEvents :
          /\ Marked(s3, e.detail.source_key)
          /\ fetch_recent_analysis(ddb, e.detail.correlation_id, 1) # <<>>
          /\ HasRecord(e.detail.correlation_id, e.detail.row_count,
                       e.detail.anomaly_count)
          /\ HasBlob(e.detail.analysis_key, e.detail.correlation_id,
                     e.detail.row_count, e.detail.anomaly_count)
    /\ \A i \in Invs : \A k \in 1..Len(results[i]) :
          results[i][k].status = "success"
          => /\ HasRecord(results[i][k].correlation_id, results[i][k].rows_analyzed,
                          results[i][k].anomalies_detected)
             /\ HasBlob(results[i][k].analysis_key, results[i][k].correlation_id,
                        results[i][k].rows_analyzed, results[i][k].anomalies_detected)

----------------------------------------------------------------------------
(* Properties of the validator and the analyzer taken together *)

\* Every row of the file under analysis is one validate_row accepts
FileValidated == \A k \in 1..Len(AnalysisRows) : validate_row(AnalysisRows[k])[1]

\* C31: the analysis of a file whose rows validate_row all accepts does not
\* fail in a conversion: neither detect_anomalies nor calculate_statistics
\* raises ValueError on it, so the handler never stands in the except clause
\* with that error.
C31_ValidatedRowsConvert ==
    FileValidated
    => \A i \in Invs :
          (kind[i] = "analyzer" /\ pc[i] = "fail_event") => loc[i].err # "ValueError"

----------------------------------------------------------------------------
(* Properties of the keys derived from a unit *)

UnitMarker(rec) == marker_key(rec.bucket, rec.key, Get(rec, "versionId", <<"null">>))

\* C32: two different units of a batch never have the same marker key, and
\* so an ingestor that stands at the marker check of a unit, in a store that
\* held no marker when the batch began, finds the marker present only when
\* the same unit came earlier in the batch.
C32_MarkerKeyInjective ==
    \A i \in Invs :
        kind[i] = "ingestor"
        => /\ \A j, k \in 1..Len(records[i]) :
                 records[i][j] # records[i][k]
                 => UnitMarker(records[i][j]) # UnitMarker(records[i][k])
           /\ (pc[i] = "check" /\ object_exists(BUCKET_NAME, CurMarker(i)))
                 => \E j \in 1..(idx[i] - 1) : records[i][j] = CurRec(i)

----------------------------------------------------------------------------
(* Properties of the notifier under redelivery and failure events *)

\* The invocations whose send_email returned True for this correlation id
Emailed(corr_id) ==
    {i \in Invs : SendSucceeded(i) /\ correlation_id[i] = corr_id}

\* C33: over all deliveries of the completion event of one analysis at most
\* one notifier invocation sends the report, and no invocation sends it for
\* a record it read with notification_sent already true.
C33_OneEmailPerAnalysis ==
    /\ Cardinality(Emailed(CorrA)) <= 1
    /\ \A i \in Emailed(CorrA) :
          \A k \in 1..Len(loc[i].items) : ~loc[i].items[k].notification_sent

\* A completion event for this correlation id is on the bus
CompleteFor(corr_id) ==
    \E e \in CompleteEvents : e.detail.correlation_id = corr_id

\* C34: a notifier invocation started by an event of the bus sends the
\* report only when the bus holds a "Data Analysis Complete" event for its
\* correlation id: a "Data Analysis Failed" event alone never leads to an
\* email, also when a record of the failed attempt is in the table.
C34_NoEmailOnFailure ==
    \A i \in Invs :
        (SendSucceeded(i) /\ loc[i].event_type = "eventbridge")
        => CompleteFor(correlation_id[i])

\* The processed file, the rejected file and the manifest in the store are
\* the ones the ingestion of the raw file at key writes
OutputsBelongTo(key) ==
    LET obj == s3[<<BUCKET_NAME, key>>]
        valid_rows == ValidRows(obj.rows)
        reject_rows == RejectRows(obj.rows)
    IN  /\ <<BUCKET_NAME, ManifestKey(key)>> \in DOMAIN s3
        /\ s3[<<BUCKET_NAME, ManifestKey(key)>>]
             = Manifest(BUCKET_NAME, key, <<"null">>, valid_rows, reject_rows)
        /\ valid_rows # <<>>
             => /\ <<BUCKET_NAME, ProcessedKey(key)>> \in DOMAIN s3
                /\ s3[<<BUCKET_NAME, ProcessedKey(key)>>]
                     = csv_to_string(valid_rows, obj.fieldnames)
        /\ reject_rows # <<>>
             => /\ <<BUCKET_NAME, RejectedKey(key)>> \in DOMAIN s3
                /\ s3[<<BUCKET_NAME, RejectedKey(key)>>]
                     = csv_to_string(reject_rows, obj.fieldnames \o <<"reject_reason">>)

\* The raw files whose ingestion is complete: their marker is written
IngestedKeys ==
    {key \in OutputKeys :
        object_exists(BUCKET_NAME, marker_key(BUCKET_NAME, key, <<"null">>))}

\* C35: two different raw files never share a processed, rejected, manifest
\* or analysis key, and so a file whose ingestion is complete (its marker is
\* written) has in the store the manifest, with its own source key and
\* counts, and the processed and rejected rows of that file, whatever other
\* files were ingested since.
C35_OutputsNotShared ==
    /\ \A k1, k2 \in IngestedKeys :
          k1 # k2
          => /\ ProcessedKey(k1) # ProcessedKey(k2)
             /\ RejectedKey(k1) # RejectedKey(k2)
             /\ ManifestKey(k1) # ManifestKey(k2)
             /\ AnalysisKey(ProcessedKey(k1)) # AnalysisKey(ProcessedKey(k2))
    /\ \A key \in IngestedKeys : OutputsBelongTo(key)

----------------------------------------------------------------------------
(* Properties of retries *)

\* The processed file in the store has its marker
RetryMarked == \E key \in RetryKeys : <<BUCKET_NAME, key>> \in DOMAIN s3 /\ Marked(s3, key)

\* No step changes the stores or the bus
Quiet == s3' = s3 /\ ddb' = ddb /\ events' = events

\* C36: when the file is delivered again and again and the collaborators
\* fail finitely often, its marker is written in the end, and from some
\* state on no step has a side effect: the deliveries that follow are
\* skipped.
C36_RetryConverges == <>RetryMarked /\ <>[][Quiet]_vars

====
